---------------------------- MODULE Spec2Model ----------------------------
(***************************************************************************)
(* A model of the energy-efficiency backend: the ETL cleaner               *)
(* (src/backend/etl/etl_processor.py), the AI module                       *)
(* (src/backend/ai/ai_model.py), the KPI calculator                        *)
(* (src/backend/kpi/kpi_calculator.py), the authentication module          *)
(* (src/backend/auth/auth.py) and the endpoints of src/backend/app.py.     *)
(*                                                                         *)
(* A pandas DataFrame is a record [cols, rows]: the set of its column      *)
(* names and the sequence of its rows, each row a function from cols to    *)
(* cells.  A cell is a record [k, n, s]: a number, a string, a datetime,   *)
(* or a missing value (NaN / NaT).  Floating-point quotients are kept in   *)
(* thousandths (fixed point); comparisons against mean and standard        *)
(* deviation are done exactly, on cross-multiplied integers.               *)
(***************************************************************************)
EXTENDS Integers, Sequences, FiniteSets, TLC

VARIABLES
    etl_pc,      \* position of the cleaner run: loaded / normalized / renormalized / raised
    etl_in,      \* the DataFrame handed to normalize_data
    etl_out,     \* normalize_data(etl_in)
    etl_out2,    \* normalize_data(etl_out)
    iqr_pc,      \* position of the outlier run: loaded / flagged
    iqr_in,      \* the DataFrame handed to detect_outliers
    iqr_out,     \* the DataFrame detect_outliers returns
    an_pc,       \* position of the anomaly run: loaded / detected
    an_in,       \* the batch as it was when detect_anomalies was called
    an_k,        \* threshold_std
    an_caller,   \* the caller's DataFrame object, which the call could mutate
    an_out,      \* the DataFrame detect_anomalies returns
    ai_model,    \* AIModel.model: the Prophet object, or none
    ai_trains,   \* the number of train_model calls so far
    ai_last,     \* the last call on the AIModel: none / train / predict
    ai_hist,     \* the history handed to the last train_model call
    ai_trained,  \* what the last train_model call returned: none / ok / failed
    ai_future,   \* the columns of the frame the last predict handed to the model
    ai_forecast, \* what the last predict call returned
    kpi_engine,  \* KPICalculator.engine: TRUE when connected, FALSE when None
    kpi_clean,   \* the rows of table clean_data
    kpi_fcst,    \* the rows of table forecast
    kpi_anoms,   \* the rows of table anomalies
    kpi_clock,   \* the wall clock datetime.now() reads
    kpi_pc,      \* position of the KPI client: idle / called / repeated
    kpi_call,    \* the call made: the function and its arguments
    kpi_res,     \* what the call returned
    kpi_res2,    \* what the same call returned when it was made again
    auth_engine, \* AuthModule.engine: TRUE when connected, FALSE when None
    auth_users,  \* the rows of table users, in insertion order
    auth_before, \* table users as it was when the last request arrived
    auth_clock,  \* datetime.utcnow(), in minutes
    auth_held,   \* the token the client got from its last successful login
    auth_req,    \* the last request
    auth_resp,   \* the response to it
    conn_who,    \* the component whose connect-retry loop runs
    conn_pc,     \* position of the loop: attempt / sleeping / done / exited
    conn_attempt,\* the loop variable attempt
    conn_made,   \* connection attempts made so far
    conn_failed, \* how many of them raised
    conn_slept,  \* seconds spent in time.sleep
    conn_engine, \* the engine handle: "None" or "Engine"
    conn_report, \* what the loop reported: none / success / failure
    conn_health, \* the database field of the last GET /health
    conn_op,     \* the outcome of the last store-backed operation
    conn_contacted,\* whether that operation opened a connection to the store
    pl_etl_engine, \* ETLProcessor.engine: TRUE for an Engine, FALSE for None
    pl_ai_engine, \* AIModel.engine
    pl_raw, \* the rows of table raw_data, in insertion order
    pl_clean, \* the rows of table clean_data
    pl_fcst, \* the rows of table forecast
    pl_anoms, \* the rows of table anomalies
    pl_model, \* AIModel.model
    pl_op, \* the last operation run on the store and its inputs
    pl_res,\* what it returned
    reg_schema, \* table users: with or without a unique constraint on username
    reg_users, \* the rows of table users, in insertion order
    reg_name, \* the username each of the two register calls was given
    reg_pc, \* position of each call: start / looked_up / done
    reg_resp,\* the response of each call
    sh_model, \* the model attribute of the one AIModel instance
    sh_rows, \* the rows of clean_data that load_training_data returns
    sh_kind, \* what each execution is: a background analysis or GET /ai/forecast
    sh_pc, \* position of each execution: start / loaded / installed / trained / done
    sh_fit, \* the execution whose model object this execution's fit call fitted
    sh_used, \* the execution whose model object this execution's predict read
    sh_result,\* what each execution returned
    lgn_fault \* the store raises on the SELECT of get_user_from_db

vars == <<etl_pc, etl_in, etl_out, etl_out2, iqr_pc, iqr_in, iqr_out,
          an_pc, an_in, an_k, an_caller, an_out,
          ai_model, ai_trains, ai_last, ai_hist, ai_trained, ai_future, ai_forecast,
          kpi_engine, kpi_clean, kpi_fcst, kpi_anoms, kpi_clock,
          kpi_pc, kpi_call, kpi_res, kpi_res2,
          auth_engine, auth_users, auth_before, auth_clock, auth_held, auth_req, auth_resp,
          conn_who, conn_pc, conn_attempt, conn_made, conn_failed, conn_slept,
          conn_engine, conn_report, conn_health, conn_op, conn_contacted,
          pl_etl_engine, pl_ai_engine, pl_raw, pl_clean, pl_fcst, pl_anoms, pl_model, pl_op, pl_res,
          reg_schema, reg_users, reg_name, reg_pc, reg_resp,
          sh_model, sh_rows, sh_kind, sh_pc, sh_fit, sh_used, sh_result,
          lgn_fault>>
ai_vars == <<ai_model, ai_trains, ai_last, ai_hist, ai_trained, ai_future, ai_forecast>>
etl_vars == <<etl_pc, etl_in, etl_out, etl_out2>>
iqr_vars == <<iqr_pc, iqr_in, iqr_out>>
an_vars == <<an_pc, an_in, an_k, an_caller, an_out>>
kpi_tables == <<kpi_clean, kpi_fcst, kpi_anoms>>
kpi_vars == <<kpi_engine, kpi_tables, kpi_clock, kpi_pc, kpi_call, kpi_res, kpi_res2>>
auth_vars == <<auth_engine, auth_users, auth_before, auth_clock, auth_held, auth_req, auth_resp>>
conn_vars == <<conn_who, conn_pc, conn_attempt, conn_made, conn_failed, conn_slept,
               conn_engine, conn_report, conn_health, conn_op, conn_contacted>>
\* the parts that model single calls on one component
core_vars == <<etl_vars, iqr_vars, an_vars, ai_vars, kpi_vars, auth_vars>>
pipe_vars == <<pl_etl_engine, pl_ai_engine, pl_raw, pl_clean, pl_fcst, pl_anoms, pl_model, pl_op, pl_res>>
reg_vars == <<reg_schema, reg_users, reg_name, reg_pc, reg_resp>>
share_vars == <<sh_model, sh_rows, sh_kind, sh_pc, sh_fit, sh_used, sh_result>>
lgn_vars == <<lgn_fault>>
\* the parts that model loops, pipelines and overlapping executions
ext_vars == <<conn_vars, pipe_vars, reg_vars, share_vars, lgn_vars>>
\* what a step of one of these parts leaves alone
conn_rest == <<core_vars, pipe_vars, reg_vars, share_vars, lgn_vars>>
pipe_rest == <<core_vars, conn_vars, reg_vars, share_vars, lgn_vars>>
reg_rest == <<core_vars, conn_vars, pipe_vars, share_vars, lgn_vars>>
share_rest == <<core_vars, conn_vars, pipe_vars, reg_vars, lgn_vars>>

---------------------------------------------------------------------------
(* Bounds of the model *)

MaxRows == 2          \* rows of a batch handed to normalize_data
MaxIqrRows == 5       \* rows of a batch handed to detect_outliers
MaxAnRows == 3        \* freely chosen rows of a batch handed to detect_anomalies
MaxHistory == 3       \* rows of a history handed to train_model
MaxTrains == 3        \* train_model calls in one behaviour
MaxCleanRows == 2     \* rows of table clean_data
MaxFcstRows == 1      \* rows of table forecast
MaxTicks == 1         \* ticks of the wall clock in one behaviour
MaxAuthTime == 45     \* minutes the authentication clock runs
MaxStoredRows == 6    \* rows of table raw_data, and of clean_data, in the pipeline

---------------------------------------------------------------------------
(* Cells and frames *)

Num(n) == [k |-> "num", n |-> n, s |-> ""]
Str(s) == [k |-> "str", n |-> 0, s |-> s]
Dt(s)  == [k |-> "dt",  n |-> 0, s |-> s]
NaN    == [k |-> "nan", n |-> 0, s |-> ""]
NaT    == [k |-> "nat", n |-> 0, s |-> ""]

\* pandas isna(): NaN, None and NaT are all missing values
IsNA(c) == c.k \in {"nan", "nat"}

EmptyFrame == [cols |-> {}, rows |-> <<>>]

\* pd.DataFrame(data): no columns when the list of records is empty
Frame(cols, rows) ==
    IF rows = <<>> \/ cols = {} THEN EmptyFrame ELSE [cols |-> cols, rows |-> rows]

\* DataFrame.empty: an axis of length 0
IsEmpty(df) == df.rows = <<>> \/ df.cols = {}

\* df[mask]: the rows that satisfy Keep, in their order
FilterRows(df, Keep(_)) == [df EXCEPT !.rows = SelectSeq(df.rows, Keep)]

\* df[c] = F(row): column c added or overwritten
WithColumn(df, c, F(_)) ==
    [cols |-> df.cols \cup {c},
     rows |-> [i \in 1..Len(df.rows) |->
                 [x \in df.cols \cup {c} |->
                    IF x = c THEN F(df.rows[i]) ELSE df.rows[i][x]]]]

RequiredFields ==
    {"timestamp", "power_kwh", "load_percent", "temperature", "installation_id"}

---------------------------------------------------------------------------
(* A part of the system that takes no step in a specification of another
   part rests in its idle state *)

EtlIdle ==
    etl_pc = "idle" /\ etl_in = EmptyFrame /\ etl_out = EmptyFrame /\ etl_out2 = EmptyFrame

IqrIdle == iqr_pc = "idle" /\ iqr_in = EmptyFrame /\ iqr_out = EmptyFrame

AnIdle ==
    /\ an_pc = "idle" /\ an_in = EmptyFrame /\ an_k = 0
    /\ an_caller = EmptyFrame /\ an_out = EmptyFrame

\* AIModel.__init__: self.model = None
NoModel == [made_by |-> 0, regressors |-> {}, fitted |-> FALSE]

\* pd.DataFrame() as a forecast: no point, made by no model
NoForecast == [points |-> 0, made_by |-> 0]

AiIdle ==
    /\ ai_model = NoModel /\ ai_trains = 0 /\ ai_last = "idle" /\ ai_hist = EmptyFrame
    /\ ai_trained = "none" /\ ai_future = {} /\ ai_forecast = NoForecast

\* no KPI call made yet, and nothing returned
NoCall == [fn |-> "none", period_days |-> 0, optimization_percent |-> 0]
NoResult == [kind |-> "none"]

KpiIdle ==
    /\ kpi_engine = FALSE /\ kpi_clean = <<>> /\ kpi_fcst = <<>> /\ kpi_anoms = <<>>
    /\ kpi_clock = 0 /\ kpi_pc = "idle" /\ kpi_call = NoCall
    /\ kpi_res = NoResult /\ kpi_res2 = NoResult

\* no bearer token
NoToken == [kind |-> "none"]

\* no request received yet, and no response given
NoRequest == [op |-> "none"]
NoResponse == [status |-> 0]

AuthIdle ==
    /\ auth_engine = FALSE /\ auth_users = <<>> /\ auth_before = <<>>
    /\ auth_clock = 0 /\ auth_held = NoToken
    /\ auth_req = NoRequest /\ auth_resp = NoResponse

ConnIdle ==
    /\ conn_who = "none" /\ conn_pc = "idle" /\ conn_attempt = 0 /\ conn_made = 0
    /\ conn_failed = 0 /\ conn_slept = 0 /\ conn_engine = "None"
    /\ conn_report = "none" /\ conn_health = "none" /\ conn_op = "none"
    /\ conn_contacted = FALSE

\* nothing returned yet
NoOutcome == [status |-> "none"]

PipeIdle ==
    /\ pl_etl_engine = FALSE /\ pl_ai_engine = FALSE
    /\ pl_raw = <<>> /\ pl_clean = <<>> /\ pl_fcst = <<>> /\ pl_anoms = <<>>
    /\ pl_model = NoModel /\ pl_op = NoRequest /\ pl_res = NoOutcome

RegIdle ==
    /\ reg_schema = "none" /\ reg_users = <<>>
    /\ reg_name = <<"", "">> /\ reg_pc = <<"idle", "idle">>
    /\ reg_resp = <<NoResponse, NoResponse>>

ShareIdle ==
    /\ sh_model = NoModel /\ sh_rows = 0
    /\ sh_kind = <<"none", "none">> /\ sh_pc = <<"idle", "idle">>
    /\ sh_fit = <<0, 0>> /\ sh_used = <<0, 0>>
    /\ sh_result = <<"none", "none">>

LgnIdle ==
    lgn_fault = FALSE

CoreIdle == EtlIdle /\ IqrIdle /\ AnIdle /\ AiIdle /\ KpiIdle /\ AuthIdle

ExtIdle == ConnIdle /\ PipeIdle /\ RegIdle /\ ShareIdle /\ LgnIdle

ConnRestIdle == CoreIdle /\ PipeIdle /\ RegIdle /\ ShareIdle /\ LgnIdle
PipeRestIdle == CoreIdle /\ ConnIdle /\ RegIdle /\ ShareIdle /\ LgnIdle
RegRestIdle == CoreIdle /\ ConnIdle /\ PipeIdle /\ ShareIdle /\ LgnIdle
ShareRestIdle == CoreIdle /\ ConnIdle /\ PipeIdle /\ RegIdle /\ LgnIdle

---------------------------------------------------------------------------
(* ETLProcessor.normalize_data *)

\* strings pd.to_datetime parses into a datetime
ParseableStrings == {"2024-01-01 00:00:00", "2024-01-01 01:00:00"}

\* pd.to_datetime on one value raises for a string that is no date
ToDatetimeRaises(c) == c.k = "str" /\ c.s # "" /\ c.s \notin ParseableStrings

\* pd.to_datetime on one value: a datetime stays, the empty string and a
\* missing value become NaT, a date string becomes a datetime
ToDatetime(c) ==
    IF c.k = "dt" THEN c
    ELSE IF c.k = "str" /\ c.s \in ParseableStrings THEN Dt(c.s)
    ELSE NaT

DropNA(df) == FilterRows(df, LAMBDA r : \A c \in df.cols : ~IsNA(r[c]))

FilterLoadNoUpperBound(df) ==
    IF "load_percent" \in df.cols
    THEN FilterRows(df, LAMBDA r : r["load_percent"].n > 0)
    ELSE df

FilterLoad(df) ==
    IF "load_percent" \in df.cols
    THEN FilterRows(FilterRows(df, LAMBDA r : r["load_percent"].n > 0),
                    LAMBDA r : r["load_percent"].n <= 100)
    ELSE df

FilterPower(df) ==
    IF "power_kwh" \in df.cols
    THEN FilterRows(df, LAMBDA r : r["power_kwh"].n > 0)
    ELSE df

ConvertTimestampRaises(df) ==
    /\ "timestamp" \in df.cols
    /\ \E i \in 1..Len(df.rows) : ToDatetimeRaises(df.rows[i]["timestamp"])

ConvertTimestamp(df) ==
    IF "timestamp" \in df.cols
    THEN WithColumn(df, "timestamp", LAMBDA r : ToDatetime(r["timestamp"]))
    ELSE df

\* load_percent / power_kwh * 100, in thousandths
Efficiency(r) == Num((r["load_percent"].n * 100 * 1000) \div r["power_kwh"].n)

\* power_kwh / load_percent, in thousandths
SpecificConsumption(r) == Num((r["power_kwh"].n * 1000) \div r["load_percent"].n)

DeriveMetrics(df) ==
    IF "power_kwh" \in df.cols /\ "load_percent" \in df.cols
    THEN WithColumn(WithColumn(df, "efficiency", Efficiency),
                    "specific_consumption", SpecificConsumption)
    ELSE df

Filtered(df) == FilterPower(FilterLoad(DropNA(df)))

\* normalize_data raises when a surviving timestamp is no date
NormalizeRaises(df) == ~IsEmpty(df) /\ ConvertTimestampRaises(Filtered(df))

normalize_data(df) ==
    IF IsEmpty(df) THEN df
    ELSE DeriveMetrics(ConvertTimestamp(Filtered(df)))

---------------------------------------------------------------------------
(* ETLProcessor.detect_outliers *)

Bool(b) == [k |-> "bool", n |-> IF b THEN 1 ELSE 0, s |-> ""]

\* a datetime i hours after the first reading
DtAt(i) == [k |-> "dt", n |-> i, s |-> ""]

\* the values of a numeric column, in row order
ColumnValues(df, c) == [i \in 1..Len(df.rows) |-> df.rows[i][c].n]

RECURSIVE InsertSorted(_, _)
InsertSorted(s, x) ==
    IF s = <<>> THEN <<x>>
    ELSE IF x <= Head(s) THEN <<x>> \o s
    ELSE <<Head(s)>> \o InsertSorted(Tail(s), x)

RECURSIVE SortAsc(_)
SortAsc(s) == IF s = <<>> THEN <<>> ELSE InsertSorted(SortAsc(Tail(s)), Head(s))

\* 4 * Series.quantile(quarters / 4) with pandas' default linear
\* interpolation: position (n-1)*q in the sorted values
Quantile4(s, quarters) ==
    LET sorted == SortAsc(s)
        h4 == (Len(s) - 1) * quarters
        lo == h4 \div 4 + 1
        frac4 == h4 % 4
    IN  IF frac4 = 0 THEN 4 * sorted[lo]
        ELSE 4 * sorted[lo] + frac4 * (sorted[lo + 1] - sorted[lo])

\* the mask with the bounds themselves counted as outliers
IsOutlierInclusive(x, s) ==
    LET q1 == Quantile4(s, 1)
        q3 == Quantile4(s, 3)
        iqr == q3 - q1
    IN  (8 * x <= 2 * q1 - 3 * iqr) \/ (8 * x >= 2 * q3 + 3 * iqr)

\* (x < Q1 - 1.5*IQR) | (x > Q3 + 1.5*IQR), both sides multiplied by 8
IsOutlier(x, s) ==
    LET q1 == Quantile4(s, 1)
        q3 == Quantile4(s, 3)
        iqr == q3 - q1
    IN  (8 * x < 2 * q1 - 3 * iqr) \/ (8 * x > 2 * q3 + 3 * iqr)

detect_outliers(df) ==
    IF IsEmpty(df) \/ "power_kwh" \notin df.cols THEN df
    ELSE WithColumn(df, "is_outlier",
             LAMBDA r : Bool(IsOutlier(r["power_kwh"].n, ColumnValues(df, "power_kwh"))))

---------------------------------------------------------------------------
(* AIModel.detect_anomalies *)

RECURSIVE SumSeq(_)
SumSeq(s) == IF s = <<>> THEN 0 ELSE Head(s) + SumSeq(Tail(s))

SumSquares(s) == SumSeq([i \in 1..Len(s) |-> s[i] * s[i]])

\* the column holding the consumption: power_kwh, else y, else none
PowerCol(df) ==
    IF "power_kwh" \in df.cols THEN "power_kwh"
    ELSE IF "y" \in df.cols THEN "y"
    ELSE "none"

\* n * (x - mean), for a value x of the batch p
DevN(x, p) == Len(p) * x - SumSeq(p)

\* n * (sum of squared deviations from the mean); the sample variance
\* Series.std() takes the root of is this over n * (n - 1)
SqDevN(p) == Len(p) * SumSquares(p) - SumSeq(p) * SumSeq(p)

\* Series.std() of a single value is NaN: every comparison with it is false
StdIsNaN(p) == Len(p) < 2

StdIsZero(p) == ~StdIsNaN(p) /\ SqDevN(p) = 0

\* |x - mean| > k * std, squared and multiplied by n^2 * (n - 1)
BeyondBand(x, p, k) ==
    /\ ~StdIsNaN(p)
    /\ DevN(x, p) * DevN(x, p) * (Len(p) - 1) > k * k * Len(p) * SqDevN(p)

\* the mask with a reading on the bound counted as anomalous
IsAnomalyInclusive(x, p, k) ==
    /\ ~StdIsNaN(p)
    /\ DevN(x, p) # 0
    /\ DevN(x, p) * DevN(x, p) * (Len(p) - 1) >= k * k * Len(p) * SqDevN(p)

\* (x < mean - k*std) | (x > mean + k*std)
IsAnomaly(x, p, k) ==
    \/ DevN(x, p) < 0 /\ BeyondBand(x, p, k)
    \/ DevN(x, p) > 0 /\ BeyondBand(x, p, k)

\* the excess taken for every anomaly, also one below the mean
ExcessUnguarded(x, p, k) ==
    IF IsAnomaly(x, p, k) THEN Num((DevN(x, p) * 1000) \div Len(p)) ELSE Num(0)

\* excess_kwh, in thousandths: 0, then power - mean where the row is an
\* anomaly above the mean
Excess(x, p, k) ==
    IF IsAnomaly(x, p, k) /\ DevN(x, p) > 0
    THEN Num((DevN(x, p) * 1000) \div Len(p))
    ELSE Num(0)

\* the cause column: 'unknown', then each assignment of the code in turn,
\* a later one overwriting an earlier one
Cause(r, df, k) ==
    LET pc == PowerCol(df)
        p == ColumnValues(df, pc)
        x == r[pc].n
        anomaly == IsAnomaly(x, p, k)
        any == \E i \in 1..Len(p) : IsAnomaly(p[i], p, k)
        c0 == "unknown"
        c1 == IF "load_percent" \in df.cols /\ anomaly /\ r["load_percent"].n > 95
              THEN "overload" ELSE c0
        c2 == IF "load_percent" \in df.cols /\ anomaly /\ r["load_percent"].n < 50
                 /\ DevN(x, p) > 0
              THEN "low_efficiency" ELSE c1
        c3 == IF "efficiency" \in df.cols
              THEN (IF anomaly /\ r["efficiency"].n < 80 THEN "equipment_wear" ELSE c2)
              ELSE IF any
              THEN (IF anomaly /\ 5 * Len(p) * x > 6 * SumSeq(p)
                    THEN "high_consumption" ELSE c2)
              ELSE c2
    IN  Str(c3)

\* pd.Timestamp.now(), the time of the call
Now == DtAt(-1)

WithTimestamp(df) ==
    IF "ds" \in df.cols THEN WithColumn(df, "timestamp", LAMBDA r : r["ds"])
    ELSE IF "timestamp" \notin df.cols THEN WithColumn(df, "timestamp", LAMBDA r : Now)
    ELSE df

WithPowerKwh(df) ==
    IF PowerCol(df) = "y" THEN WithColumn(df, "power_kwh", LAMBDA r : r["y"]) ELSE df

\* the working frame after every column assignment of detect_anomalies
Annotated(df, k) ==
    LET pc == PowerCol(df)
        p == ColumnValues(df, pc)
        d1 == WithColumn(df, "is_anomaly", LAMBDA r : Bool(IsAnomaly(r[pc].n, p, k)))
        d2 == WithColumn(d1, "excess_kwh", LAMBDA r : Excess(r[pc].n, p, k))
        d3 == WithPowerKwh(d2)
        d4 == WithColumn(d3, "cause", LAMBDA r : Cause(r, df, k))
    IN  WithTimestamp(d4)

\* the returns of detect_anomalies that precede any assignment
ReturnsEarly(df) ==
    \/ IsEmpty(df)
    \/ PowerCol(df) = "none"
    \/ StdIsZero(ColumnValues(df, PowerCol(df)))

detect_anomalies(df, k) ==
    IF ReturnsEarly(df) THEN EmptyFrame
    ELSE FilterRows(Annotated(df, k), LAMBDA r : r["is_anomaly"] = Bool(TRUE))

\* the columns assigned on the caller's own frame, without a copy
CallerFrameInPlace(df, k) == IF ReturnsEarly(df) THEN df ELSE Annotated(df, k)

\* df = df.copy() precedes every assignment: the caller's frame is as it was
CallerFrame(df, k) == df

---------------------------------------------------------------------------
(* AIModel.train_model and AIModel.predict, with the parts of the Prophet
   library they call *)

Regressors == {"load_percent", "temperature"}

\* Prophet(): a new model, no regressor, not fitted; made_by numbers the
\* train_model call that constructed it
NewProphet(call) == [made_by |-> call, regressors |-> {}, fitted |-> FALSE]

\* model.add_regressor(name) for each optional covariate of the history
AddRegressors(m, df) == [m EXCEPT !.regressors = Regressors \cap df.cols]

\* Prophet.fit raises on a history with fewer than 2 rows whose y is known
FitRaises(df) == Len(SelectSeq(df.rows, LAMBDA r : ~IsNA(r["y"]))) < 2

\* train_model returns False before it touches self.model
TrainRejects(df) == IsEmpty(df) \/ "ds" \notin df.cols \/ "y" \notin df.cols

\* self.model after train_model(df), the call-th call
ModelAfterTrain(m, df, call) ==
    IF TrainRejects(df) THEN m
    ELSE LET fresh == AddRegressors(NewProphet(call), df)
         IN  [fresh EXCEPT !.fitted = ~FitRaises(df)]

\* the return value of train_model(df)
TrainResult(df) == IF TrainRejects(df) \/ FitRaises(df) THEN "failed" ELSE "ok"

\* model.make_future_dataframe raises on a model that was not fitted
MakeFutureRaises(m) == ~m.fitted

\* the frame make_future_dataframe returns has the one column ds
FutureColumns == {"ds"}

\* model.predict(future) raises when a registered regressor is no column
\* of the frame
ProphetPredictRaises(m, cols) == ~(m.regressors \subseteq cols)

\* the frame predict hands to model.predict; none when it never gets there
FutureOf(m) == IF m = NoModel \/ MakeFutureRaises(m) THEN {} ELSE FutureColumns

\* AIModel.predict(periods): the last periods rows of the model's forecast,
\* or an empty frame when there is no model or the library raises
predict(m, periods) ==
    IF m = NoModel THEN NoForecast
    ELSE IF MakeFutureRaises(m) \/ ProphetPredictRaises(m, FutureColumns) THEN NoForecast
    ELSE [points |-> periods, made_by |-> m.made_by]

---------------------------------------------------------------------------
(* The batches handed to normalize_data *)

InputColumns == RequiredFields \cup {"temp"}

GoodRow ==
    [c \in InputColumns |->
        CASE c = "timestamp" -> Str("2024-01-01 00:00:00")
          [] c = "power_kwh" -> Num(4)
          [] c = "load_percent" -> Num(50)
          [] c = "installation_id" -> Str("INST_001")
          [] OTHER -> Num(20)]

\* a second good row, on the upper bound of load_percent
GoodRow2 ==
    [GoodRow EXCEPT !["timestamp"] = Str("2024-01-01 01:00:00"),
                    !["power_kwh"] = Num(10),
                    !["load_percent"] = Num(100)]

\* every row differs from a good one in at most one field
RowTemplates ==
    {GoodRow, GoodRow2}
    \cup {[GoodRow EXCEPT !["power_kwh"] = v] : v \in {NaN, Num(0), Num(-3)}}
    \cup {[GoodRow EXCEPT !["load_percent"] = v] : v \in {NaN, Num(0), Num(101)}}
    \cup {[GoodRow EXCEPT !["timestamp"] = v] : v \in {NaN, Str(""), Str("not-a-date")}}
    \cup {[GoodRow EXCEPT !["temperature"] = NaN, !["temp"] = NaN]}
    \cup {[GoodRow EXCEPT !["installation_id"] = NaN]}

\* the columns of a batch: all required fields, one of them absent from
\* every reading, or the generator's layout (temp in place of temperature)
InputColumnSets ==
    {RequiredFields}
    \cup {RequiredFields \ {c} : c \in RequiredFields}
    \cup {(RequiredFields \ {"temperature"}) \cup {"temp"}}

Restrict(r, cols) == [c \in cols |-> r[c]]

SeqsUpTo(S, n) == UNION {[1..m -> S] : m \in 0..n}

InputFrames ==
    {Frame(cols, [i \in 1..Len(rows) |-> Restrict(rows[i], cols)]) :
        cols \in InputColumnSets, rows \in SeqsUpTo(RowTemplates, MaxRows)}

---------------------------------------------------------------------------
(* The cleaner run: normalize_data, then normalize_data on its own output *)

EtlInit ==
    /\ etl_pc = "loaded"
    /\ etl_in \in InputFrames
    /\ etl_out = EmptyFrame
    /\ etl_out2 = EmptyFrame

Normalize ==
    /\ etl_pc = "loaded"
    /\ ~NormalizeRaises(etl_in)
    /\ etl_out' = normalize_data(etl_in)
    /\ etl_pc' = "normalized"
    /\ UNCHANGED <<etl_in, etl_out2>>
    /\ UNCHANGED <<iqr_vars, an_vars, ai_vars, kpi_vars, auth_vars, ext_vars>>

NormalizeFails ==
    /\ etl_pc = "loaded"
    /\ NormalizeRaises(etl_in)
    /\ etl_pc' = "raised"
    /\ UNCHANGED <<etl_in, etl_out, etl_out2>>
    /\ UNCHANGED <<iqr_vars, an_vars, ai_vars, kpi_vars, auth_vars, ext_vars>>

NormalizeAgain ==
    /\ etl_pc = "normalized"
    /\ ~NormalizeRaises(etl_out)
    /\ etl_out2' = normalize_data(etl_out)
    /\ etl_pc' = "renormalized"
    /\ UNCHANGED <<etl_in, etl_out>>
    /\ UNCHANGED <<iqr_vars, an_vars, ai_vars, kpi_vars, auth_vars, ext_vars>>

InitETL == EtlInit /\ IqrIdle /\ AnIdle /\ AiIdle /\ KpiIdle /\ AuthIdle /\ ExtIdle

NextETL == Normalize \/ NormalizeFails \/ NormalizeAgain

SpecETL == InitETL /\ [][NextETL]_vars

---------------------------------------------------------------------------
(* The outlier run: detect_outliers on a batch of readings *)

IqrPowers == {10, 12, 40, 1000}

IqrColumnSets == {{"timestamp", "power_kwh"}, {"timestamp"}}

IqrFrames ==
    {Frame(cols, [i \in 1..Len(p) |->
                    Restrict([timestamp |-> DtAt(i), power_kwh |-> Num(p[i])], cols)]) :
        cols \in IqrColumnSets, p \in SeqsUpTo(IqrPowers, MaxIqrRows)}

IqrInit ==
    /\ iqr_pc = "loaded"
    /\ iqr_in \in IqrFrames
    /\ iqr_out = EmptyFrame

DetectOutliers ==
    /\ iqr_pc = "loaded"
    /\ iqr_out' = detect_outliers(iqr_in)
    /\ iqr_pc' = "flagged"
    /\ UNCHANGED iqr_in
    /\ UNCHANGED <<etl_vars, an_vars, ai_vars, kpi_vars, auth_vars, ext_vars>>

InitIQR == IqrInit /\ EtlIdle /\ AnIdle /\ AiIdle /\ KpiIdle /\ AuthIdle /\ ExtIdle

NextIQR == DetectOutliers

SpecIQR == InitIQR /\ [][NextIQR]_vars

---------------------------------------------------------------------------
(* The anomaly run: detect_anomalies on a batch of readings *)

\* a reading of an anomaly batch: consumption, load and efficiency in
\* whole units
AnRow(power, load, eff) ==
    [power_kwh |-> Num(power), y |-> Num(power), load_percent |-> Num(load),
     efficiency |-> Num(eff)]

OrdinaryRow == AnRow(1, 70, 90)

AnTemplates ==
    {OrdinaryRow, AnRow(8, 70, 90), AnRow(10, 70, 90), AnRow(10, 96, 90),
     AnRow(10, 40, 90), AnRow(10, 70, 70), AnRow(12, 70, 90)}

\* clean_data rows, training data (ds, y, load_percent), and bare columns
AnColumnSets ==
    {{"timestamp", "power_kwh", "load_percent", "efficiency"},
     {"timestamp", "power_kwh", "load_percent"},
     {"ds", "y", "load_percent"},
     {"power_kwh"}}

\* ordinary readings that precede the freely chosen ones
AnPadCounts == {0, 3}

AnThresholds == {1, 2}

Stamped(r, i) ==
    [c \in DOMAIN r \cup {"timestamp", "ds"} |->
        IF c \in {"timestamp", "ds"} THEN DtAt(i) ELSE r[c]]

AnFrame(cols, pad, rows) ==
    Frame(cols, [i \in 1..(pad + Len(rows)) |->
                    Restrict(Stamped(IF i <= pad THEN OrdinaryRow ELSE rows[i - pad], i),
                             cols)])

AnInit ==
    /\ an_pc = "loaded"
    /\ \E cols \in AnColumnSets, pad \in AnPadCounts,
          rows \in SeqsUpTo(AnTemplates, MaxAnRows) :
            an_in = AnFrame(cols, pad, rows)
    /\ an_k \in AnThresholds
    /\ an_caller = an_in
    /\ an_out = EmptyFrame

DetectAnomalies ==
    /\ an_pc = "loaded"
    /\ an_out' = detect_anomalies(an_caller, an_k)
    /\ an_caller' = CallerFrame(an_caller, an_k)
    /\ an_pc' = "detected"
    /\ UNCHANGED <<an_in, an_k>>
    /\ UNCHANGED <<etl_vars, iqr_vars, ai_vars, kpi_vars, auth_vars, ext_vars>>

InitAN == AnInit /\ EtlIdle /\ IqrIdle /\ AiIdle /\ KpiIdle /\ AuthIdle /\ ExtIdle

NextAN == DetectAnomalies

SpecAN == InitAN /\ [][NextAN]_vars

---------------------------------------------------------------------------
(* Calls on one AIModel: train_model and predict, in any order *)

HistoryRow(i) ==
    [ds |-> DtAt(i), y |-> Num(10 + i), load_percent |-> Num(70), temperature |-> Num(20)]

\* what load_training_data selects, the same without covariates, with one
\* covariate, and a frame without ds
HistoryColumnSets ==
    {{"ds", "y", "load_percent", "temperature"},
     {"ds", "y"},
     {"ds", "y", "load_percent"},
     {"y", "load_percent"}}

History(cols, n) == Frame(cols, [i \in 1..n |-> Restrict(HistoryRow(i), cols)])

PeriodChoices == {1, 7}

AiInit ==
    /\ ai_model = NoModel
    /\ ai_trains = 0
    /\ ai_last = "none"
    /\ ai_hist = EmptyFrame
    /\ ai_trained = "none"
    /\ ai_future = {}
    /\ ai_forecast = NoForecast

TrainModel ==
    /\ ai_trains < MaxTrains
    /\ \E cols \in HistoryColumnSets, n \in 0..MaxHistory :
          /\ ai_hist' = History(cols, n)
          /\ ai_model' = ModelAfterTrain(ai_model, History(cols, n), ai_trains + 1)
          /\ ai_trained' = TrainResult(History(cols, n))
    /\ ai_trains' = ai_trains + 1
    /\ ai_last' = "train"
    /\ UNCHANGED <<ai_future, ai_forecast>>
    /\ UNCHANGED <<etl_vars, iqr_vars, an_vars, kpi_vars, auth_vars, ext_vars>>

Predict ==
    /\ \E periods \in PeriodChoices : ai_forecast' = predict(ai_model, periods)
    /\ ai_future' = FutureOf(ai_model)
    /\ ai_last' = "predict"
    /\ UNCHANGED <<ai_model, ai_trains, ai_hist, ai_trained>>
    /\ UNCHANGED <<etl_vars, iqr_vars, an_vars, kpi_vars, auth_vars, ext_vars>>

InitAI == AiInit /\ EtlIdle /\ IqrIdle /\ AnIdle /\ KpiIdle /\ AuthIdle /\ ExtIdle

NextAI == TrainModel \/ Predict

SpecAI == InitAI /\ [][NextAI]_vars

---------------------------------------------------------------------------
(* KPICalculator: aggregates over the stored rows.  A stored row carries
   its age in days (NOW() minus its timestamp; a forecast row lies in the
   future and has a negative age) and a cell for each column, NaN standing
   for SQL NULL.  Results rounded to 2 decimals are kept in hundredths,
   enpi, rounded to 4 decimals, in ten-thousandths. *)

energy_price_per_kwh == 5

days_per_year == 365

\* {}: the empty result
EmptyResult == [kind |-> "empty"]

\* round(n / d, 0) for d > 0, halves away from zero
RoundUp(n, d) == (n \div d) + (IF 2 * (n % d) >= d THEN 1 ELSE 0)

RoundDiv(n, d) == IF n >= 0 THEN RoundUp(n, d) ELSE -RoundUp(-n, d)

\* WHERE timestamp >= NOW() - INTERVAL 'period_days days'
InWindow(rows, period_days) == SelectSeq(rows, LAMBDA r : r.age <= period_days)

\* the values an SQL aggregate sees: NULL is skipped
NonNull(rows, col) ==
    LET kept == SelectSeq(rows, LAMBDA r : ~IsNA(r[col]))
    IN  [i \in 1..Len(kept) |-> kept[i][col].n]

\* SUM(col) and MIN(col), MAX(col); over no value they are NULL, which the
\* callers test with SqlIsNull
SqlSum(rows, col) == SumSeq(NonNull(rows, col))

SqlIsNull(rows, col) == NonNull(rows, col) = <<>>

SqlMin(rows, col) == SortAsc(NonNull(rows, col))[1]

SqlMax(rows, col) == LET s == SortAsc(NonNull(rows, col)) IN s[Len(s)]

\* enpi = avg_power / avg_load if avg_load > 0 else 0, with
\* avg = sum / n over the non-NULL values; rounded to 4 decimals
EnpiInverted(rows) ==
    IF SqlSum(rows, "load_percent") > 0
    THEN RoundDiv(SqlSum(rows, "load_percent") * Len(NonNull(rows, "power_kwh")) * 10000,
                  Len(NonNull(rows, "load_percent")) * SqlSum(rows, "power_kwh"))
    ELSE 0

Enpi(rows) ==
    IF SqlSum(rows, "load_percent") > 0
    THEN RoundDiv(SqlSum(rows, "power_kwh") * Len(NonNull(rows, "load_percent")) * 10000,
                  Len(NonNull(rows, "power_kwh")) * SqlSum(rows, "load_percent"))
    ELSE 0

\* baseline_enpi = enpi * 1.05, rounded to 4 decimals
BaselineEnpi(rows) ==
    IF SqlSum(rows, "load_percent") > 0
    THEN RoundDiv(SqlSum(rows, "power_kwh") * Len(NonNull(rows, "load_percent")) * 10500,
                  Len(NonNull(rows, "power_kwh")) * SqlSum(rows, "load_percent"))
    ELSE 0

\* ((enpi - baseline_enpi) / baseline_enpi) * 100 if baseline_enpi > 0 else 0
DeviationPercent(rows) ==
    IF SqlSum(rows, "load_percent") > 0 THEN RoundDiv(-5 * 100 * 100, 105) ELSE 0

\* AVG(col) rounded to 2 decimals
AvgRounded(rows, col) == RoundDiv(SqlSum(rows, col) * 100, Len(NonNull(rows, col)))

calculate_enpi(period_days) ==
    LET rows == InWindow(kpi_clean, period_days)
    IN  IF ~kpi_engine THEN EmptyResult
        ELSE IF Len(rows) = 0 THEN EmptyResult
        \* an average that is NULL comes back as None: the comparison or the
        \* division raises TypeError, which the except clause turns into {}
        ELSE IF SqlIsNull(rows, "load_percent") \/ SqlIsNull(rows, "power_kwh")
        THEN EmptyResult
        ELSE [kind |-> "enpi",
              enpi |-> Enpi(rows),
              baseline_enpi |-> BaselineEnpi(rows),
              deviation_percent |-> DeviationPercent(rows),
              avg_power_kwh |-> AvgRounded(rows, "power_kwh"),
              avg_load_percent |-> AvgRounded(rows, "load_percent"),
              period_days |-> period_days]

\* line 129: the forecast is the baseline when its SUM is truthy, that is
\* neither None (no forecast row in the window) nor 0
UsesForecast(fc) == ~SqlIsNull(fc, "predicted_kwh") /\ SqlSum(fc, "predicted_kwh") # 0

\* the baseline total as a fraction num / den: total_predicted, else
\* avg_actual * record_count with avg_actual = (AVG(power_kwh) or 0)
Baseline(actual, fc) ==
    IF UsesForecast(fc) THEN [num |-> SqlSum(fc, "predicted_kwh"), den |-> 1]
    ELSE IF SqlIsNull(actual, "power_kwh") THEN [num |-> 0, den |-> 1]
    ELSE [num |-> SqlSum(actual, "power_kwh") * Len(actual),
          den |-> Len(NonNull(actual, "power_kwh"))]

\* excess_kwh = total_actual - baseline, rounded to 2 decimals
ExcessKwh(actual, fc) ==
    LET b == Baseline(actual, fc)
    IN  RoundDiv((SqlSum(actual, "power_kwh") * b.den - b.num) * 100, b.den)

\* excess_percent = excess_kwh / baseline * 100 if baseline > 0 else 0
ExcessPercent(actual, fc) ==
    LET b == Baseline(actual, fc)
    IN  IF b.num > 0
        THEN RoundDiv((SqlSum(actual, "power_kwh") * b.den - b.num) * 100 * 100, b.num)
        ELSE 0

calculate_excess_consumption(period_days) ==
    LET actual == InWindow(kpi_clean, period_days)
        fc == InWindow(kpi_fcst, period_days)
        anomalies == InWindow(kpi_anoms, period_days)
    IN  IF ~kpi_engine THEN EmptyResult
        ELSE [kind |-> "excess",
              total_consumption_kwh |-> SqlSum(actual, "power_kwh") * 100,
              excess_kwh |-> ExcessKwh(actual, fc),
              excess_percent |-> ExcessPercent(actual, fc),
              anomalies_excess_kwh |-> SqlSum(anomalies, "excess_kwh") * 100,
              period_days |-> period_days]

\* the early return of calculate_economic_effect: no excess data, or an
\* excess that is not positive
NoSavingsOnlyWithoutData(excess_data) == excess_data = EmptyResult

NoSavings(excess_data) ==
    excess_data = EmptyResult \/ excess_data.excess_kwh <= 0

calculate_economic_effect(optimization_percent, period_days) ==
    LET excess_data == calculate_excess_consumption(period_days)
    IN  IF NoSavings(excess_data)
        THEN [kind |-> "economic",
              savings_kwh |-> 0,
              savings_rub |-> 0,
              optimization_percent |-> optimization_percent,
              period_days |-> period_days]
        ELSE [kind |-> "economic",
              savings_kwh |-> RoundDiv(excess_data.excess_kwh * optimization_percent, 100),
              savings_rub |->
                  RoundDiv(excess_data.excess_kwh * optimization_percent
                               * energy_price_per_kwh, 100),
              annual_savings_kwh |->
                  RoundDiv(excess_data.excess_kwh * optimization_percent * days_per_year,
                           100 * period_days),
              annual_savings_rub |->
                  RoundDiv(excess_data.excess_kwh * optimization_percent * days_per_year
                               * energy_price_per_kwh, 100 * period_days),
              optimization_percent |-> optimization_percent,
              period_days |-> period_days,
              energy_price_per_kwh |-> energy_price_per_kwh]

\* the efficiency cells are in thousandths; (aggregate or 0) rounded to 2
\* decimals
calculate_efficiency(period_days) ==
    LET rows == InWindow(kpi_clean, period_days)
        none == SqlIsNull(rows, "efficiency")
    IN  IF ~kpi_engine THEN EmptyResult
        ELSE [kind |-> "efficiency",
              avg_efficiency |->
                  IF none THEN 0
                  ELSE RoundDiv(SqlSum(rows, "efficiency"),
                                Len(NonNull(rows, "efficiency")) * 10),
              min_efficiency |-> IF none THEN 0 ELSE RoundDiv(SqlMin(rows, "efficiency"), 10),
              max_efficiency |-> IF none THEN 0 ELSE RoundDiv(SqlMax(rows, "efficiency"), 10),
              period_days |-> period_days]

\* "timestamp": datetime.now().isoformat()
get_all_kpis(period_days, optimization_percent) ==
    [kind |-> "all",
     enpi |-> calculate_enpi(period_days),
     excess_consumption |-> calculate_excess_consumption(period_days),
     efficiency |-> calculate_efficiency(period_days),
     economic_effect |-> calculate_economic_effect(optimization_percent, period_days),
     period_days |-> period_days,
     timestamp |-> kpi_clock]

---------------------------------------------------------------------------
(* The KPI specification: the tables hold what the ETL and AI runs have
   written, a client makes one call and then the same call again, and
   the wall clock ticks in between *)

\* a row of clean_data, as save_to_clean_data_table writes it; a batch
\* without a load_percent column leaves that column and efficiency NULL
CleanRow(age, power, load) ==
    [age |-> age, power_kwh |-> Num(power),
     load_percent |-> IF load = 0 THEN NaN ELSE Num(load),
     efficiency |->
         IF load = 0 THEN NaN
         ELSE Efficiency([power_kwh |-> Num(power), load_percent |-> Num(load)])]

CleanTemplates ==
    << CleanRow(1, 1000, 50), CleanRow(3, 2000, 50),
       CleanRow(10, 1500, 80), CleanRow(3, 800, 0) >>

\* a row of forecast, as save_forecast writes it
FcstRow(age, predicted) == [age |-> age, predicted_kwh |-> Num(predicted)]

FcstTemplates == << FcstRow(-1, 0), FcstRow(-1, 2900), FcstRow(40, 900) >>

\* the tables of anomalies, rows as save_anomalies writes them
AnomalyTables == { <<>>, << [age |-> 2, excess_kwh |-> Num(12)] >> }

\* the tables of at most n rows drawn from the templates (the order of the
\* rows does not matter to an aggregate, so one order stands for all)
TablesOf(templates, n) ==
    { [i \in 1..Len(ix) |-> templates[ix[i]]] :
        ix \in { f \in UNION {[1..k -> 1..Len(templates)] : k \in 0..n} :
                    \A i \in 1..(Len(f) - 1) : f[i] <= f[i + 1] } }

PeriodDays == {7, 30}

OptimizationPercents == {1, 2}

KpiInit ==
    /\ kpi_engine \in BOOLEAN
    /\ kpi_clean \in TablesOf(CleanTemplates, MaxCleanRows)
    /\ kpi_fcst \in TablesOf(FcstTemplates, MaxFcstRows)
    /\ kpi_anoms \in AnomalyTables
    /\ kpi_clock = 0 /\ kpi_pc = "idle" /\ kpi_call = NoCall
    /\ kpi_res = NoResult /\ kpi_res2 = NoResult

\* what a call returns
Invoke(call) ==
    CASE call.fn = "calculate_enpi" -> calculate_enpi(call.period_days)
      [] call.fn = "calculate_excess_consumption" ->
             calculate_excess_consumption(call.period_days)
      [] call.fn = "calculate_efficiency" -> calculate_efficiency(call.period_days)
      [] call.fn = "calculate_economic_effect" ->
             calculate_economic_effect(call.optimization_percent, call.period_days)
      [] call.fn = "get_all_kpis" ->
             get_all_kpis(call.period_days, call.optimization_percent)

KpiCall(call) ==
    /\ kpi_pc = "idle"
    /\ kpi_pc' = "called"
    /\ kpi_call' = call
    /\ kpi_res' = Invoke(call)
    /\ UNCHANGED <<kpi_engine, kpi_tables, kpi_clock, kpi_res2>>
    /\ UNCHANGED <<etl_vars, iqr_vars, an_vars, ai_vars, auth_vars, ext_vars>>

CalculateEnpi ==
    \E p \in PeriodDays :
        KpiCall([fn |-> "calculate_enpi", period_days |-> p, optimization_percent |-> 0])

CalculateExcessConsumption ==
    \E p \in PeriodDays :
        KpiCall([fn |-> "calculate_excess_consumption", period_days |-> p,
                 optimization_percent |-> 0])

CalculateEfficiency ==
    \E p \in PeriodDays :
        KpiCall([fn |-> "calculate_efficiency", period_days |-> p,
                 optimization_percent |-> 0])

CalculateEconomicEffect ==
    \E p \in PeriodDays, o \in OptimizationPercents :
        KpiCall([fn |-> "calculate_economic_effect", period_days |-> p,
                 optimization_percent |-> o])

GetAllKpis ==
    \E p \in PeriodDays, o \in OptimizationPercents :
        KpiCall([fn |-> "get_all_kpis", period_days |-> p, optimization_percent |-> o])

\* the same call once more, on the same stored rows
KpiCallAgain ==
    /\ kpi_pc = "called"
    /\ kpi_pc' = "repeated"
    /\ kpi_res2' = Invoke(kpi_call)
    /\ UNCHANGED <<kpi_engine, kpi_tables, kpi_clock, kpi_call, kpi_res>>
    /\ UNCHANGED <<etl_vars, iqr_vars, an_vars, ai_vars, auth_vars, ext_vars>>

\* time passes between two calls
KpiTick ==
    /\ kpi_clock < MaxTicks
    /\ kpi_clock' = kpi_clock + 1
    /\ UNCHANGED <<kpi_engine, kpi_tables, kpi_pc, kpi_call, kpi_res, kpi_res2>>
    /\ UNCHANGED <<etl_vars, iqr_vars, an_vars, ai_vars, auth_vars, ext_vars>>

InitKPI == KpiInit /\ EtlIdle /\ IqrIdle /\ AnIdle /\ AiIdle /\ AuthIdle /\ ExtIdle

NextKPI ==
    \/ CalculateEnpi
    \/ CalculateExcessConsumption
    \/ CalculateEfficiency
    \/ CalculateEconomicEffect
    \/ GetAllKpis
    \/ KpiCallAgain
    \/ KpiTick

SpecKPI == InitKPI /\ [][NextKPI]_vars

---------------------------------------------------------------------------
(* AuthModule (src/backend/auth/auth.py) and the endpoints of
   src/backend/app.py that depend on it.  A JWT is a record of its claims
   and its signature; the signature is the pair of the key and the claims
   it was computed over, so it verifies only under that key and only for
   those claims.  Time is in minutes. *)

SECRET_KEY == "your-secret-key-change-in-production"

ACCESS_TOKEN_EXPIRE_MINUTES == 30

\* lifetime create_access_token gives when it gets no expires_delta
DefaultExpireMinutes == 15

\* pwd_context.hash and pwd_context.verify (bcrypt)
get_password_hash(password) == [scheme |-> "bcrypt", of |-> password]

VerifyAnyPassword(plain_password, hashed_password) == TRUE

verify_password(plain_password, hashed_password) ==
    hashed_password.scheme = "bcrypt" /\ hashed_password.of = plain_password

\* jwt.encode(claims, key, algorithm=ALGORITHM)
Signature(key, claims) == [key |-> key, over |-> claims]

JwtEncode(claims, key) ==
    [kind |-> "jwt", claims |-> claims, sig |-> Signature(key, claims)]

\* jwt.decode(token, key, algorithms=[ALGORITHM]) raises JWTError: not a
\* JWT, a signature that does not verify, or an exp claim in the past
JwtDecodeIgnoresExpiry(token, key, now) ==
    token.kind # "jwt" \/ token.sig # Signature(key, token.claims)

JwtDecodeRaises(token, key, now) ==
    \/ token.kind # "jwt"
    \/ token.sig # Signature(key, token.claims)
    \/ ("exp" \in DOMAIN token.claims /\ token.claims.exp < now)

\* expires_delta = 0 stands for None
create_access_token(data, expires_delta, now) ==
    LET expire == IF expires_delta # 0 THEN now + expires_delta
                  ELSE now + DefaultExpireMinutes
    IN  JwtEncode([c \in DOMAIN data \cup {"exp"} |->
                       IF c = "exp" THEN expire ELSE data[c]],
                  SECRET_KEY)

\* None, where a user is expected
NoneUser == [kind |-> "none"]

\* the rows a table holds for a username
RowsOf(table, username) == SelectSeq(table, LAMBDA r : r.username = username)

\* SELECT ... FROM users WHERE username = :username
UserRows(username) == SelectSeq(auth_users, LAMBDA r : r.username = username)

\* the role column is NULL or empty in a row stored without a role: "";
\* an exception of the store is printed and None returned
get_user_from_db(username) ==
    IF ~auth_engine THEN NoneUser
    ELSE IF lgn_fault THEN NoneUser
    ELSE IF UserRows(username) = <<>> THEN NoneUser
    ELSE LET row == UserRows(username)[1]
         IN  [kind |-> "user_in_db",
              username |-> row.username,
              email |-> row.email,
              hashed_password |-> row.hashed_password,
              role |-> IF row.role # "" THEN row.role ELSE "user"]

\* an HTTP response: the status, the detail and the headers of an
\* HTTPException, the token or the user returned, and the handler that ran
Response(status, detail, token, user, ran) ==
    [status |-> status, detail |-> detail, headers |-> "",
     token |-> token, user |-> user, ran |-> ran]

Raise(status, detail) == Response(status, detail, NoToken, NoneUser, "none")

\* HTTPException(401, detail, headers={"WWW-Authenticate": "Bearer"})
Unauthorized(detail) ==
    [Raise(401, detail) EXCEPT !.headers = "WWW-Authenticate: Bearer"]

credentials_exception == Unauthorized("Could not validate credentials")

\* the role of the User that get_current_user returns
RoleFromToken(token, user_db) ==
    IF "role" \in DOMAIN token.claims THEN token.claims.role ELSE user_db.role

RoleOfCurrentUser(token, user_db) == user_db.role

get_current_user(token, now) ==
    IF JwtDecodeRaises(token, SECRET_KEY, now) THEN credentials_exception
    ELSE IF "sub" \notin DOMAIN token.claims THEN credentials_exception
    ELSE LET user_db == get_user_from_db(token.claims.sub)
         IN  IF user_db = NoneUser THEN credentials_exception
             ELSE Response(200, "", NoToken,
                           [kind |-> "user",
                            username |-> user_db.username,
                            email |-> user_db.email,
                            role |-> RoleOfCurrentUser(token, user_db)],
                           "none")

\* the test of require_role
RoleSufficesOnlyIfEqual(role, required_role) == role = required_role

RoleSuffices(role, required_role) == ~(role # required_role /\ role # "admin")

require_role(required_role, current_user) ==
    IF ~RoleSuffices(current_user.role, required_role)
    THEN Raise(403, "Requires role")
    ELSE Response(200, "", NoToken, current_user, "none")

LoginRejectedWithCause(cause) == Unauthorized(cause)

\* the HTTPException login raises, for either cause
LoginRejected(cause) == Unauthorized("Incorrect username or password")

login(username, password, now) ==
    LET user == get_user_from_db(username)
    IN  IF user = NoneUser THEN LoginRejected("no user")
        ELSE IF ~verify_password(password, user.hashed_password)
        THEN LoginRejected("wrong password")
        ELSE Response(200, "",
                      create_access_token([sub |-> user.username, role |-> user.role],
                                          ACCESS_TOKEN_EXPIRE_MINUTES, now),
                      NoneUser, "none")

\* existing_user of register
NeverRegistered(username) == FALSE

AlreadyRegistered(username) == get_user_from_db(username) # NoneUser

register(username, email, password, role) ==
    IF ~auth_engine THEN Raise(500, "Database connection not available")
    ELSE IF AlreadyRegistered(username) THEN Raise(400, "Username already registered")
    ELSE Response(200, "User registered successfully", NoToken, NoneUser, "none")

\* table users after a register call that got the given response
UsersAfter(resp, username, email, password, role) ==
    IF resp.status = 200
    THEN Append(auth_users,
                [username |-> username, email |-> email,
                 hashed_password |-> get_password_hash(password), role |-> role])
    ELSE auth_users

\* register of src/auth-service/app.py: its own engine handle, the same
\* table, and no role column in the INSERT
service_register(engine, username, email, password) ==
    IF ~engine THEN Raise(500, "Database connection not available")
    ELSE IF UserRows(username) # <<>> THEN Raise(400, "Username already registered")
    ELSE Response(200, "User registered successfully", NoToken, NoneUser, "none")

\* Depends(oauth2_scheme), then AuthModule.get_current_user: a request
\* without a bearer token is answered 401 by the scheme itself
auth_get_current_user(token, now) ==
    IF token = NoToken THEN Unauthorized("Not authenticated")
    ELSE get_current_user(token, now)

\* require_admin: Depends(get_current_user), then require_role("admin")
require_admin(token, now) ==
    LET auth == auth_get_current_user(token, now)
    IN  IF auth.status # 200 THEN auth ELSE require_role("admin", auth.user)

\* the endpoints of app.py and what the handler of each starts
Endpoints ==
    {"/", "/health", "/auth/me", "/etl/process", "/etl/status", "/ai/analyze",
     "/ai/forecast", "/ai/anomalies", "/kpi/enpi", "/kpi/excess", "/kpi/efficiency",
     "/kpi/economic", "/kpi/all"}

Handler(endpoint) ==
    CASE endpoint = "/" -> "root"
      [] endpoint = "/health" -> "health_check"
      [] endpoint = "/auth/me" -> "get_current_user_info"
      [] endpoint = "/etl/process" -> "etl_processor.process"
      [] endpoint = "/etl/status" -> "get_etl_status"
      [] endpoint = "/ai/analyze" -> "ai_model.run_full_analysis"
      [] endpoint = "/ai/forecast" -> "ai_model.predict"
      [] endpoint = "/ai/anomalies" -> "ai_model.detect_anomalies"
      [] endpoint = "/kpi/enpi" -> "kpi_calculator.calculate_enpi"
      [] endpoint = "/kpi/excess" -> "kpi_calculator.calculate_excess_consumption"
      [] endpoint = "/kpi/efficiency" -> "kpi_calculator.calculate_efficiency"
      [] endpoint = "/kpi/economic" -> "kpi_calculator.calculate_economic_effect"
      [] endpoint = "/kpi/all" -> "kpi_calculator.get_all_kpis"

\* the endpoints declared with current_user = Depends(auth_get_current_user)
ProtectedButStatus(endpoint) == endpoint \notin {"/", "/health", "/etl/status"}

Protected(endpoint) == endpoint \notin {"/", "/health"}

\* the role an endpoint demands: none of them depends on require_admin
RequiredRole(endpoint) == "none"

call_endpoint(endpoint, token, now) ==
    IF Protected(endpoint)
    THEN LET auth == auth_get_current_user(token, now)
         IN  IF auth.status # 200 THEN auth
             ELSE Response(200, "", NoToken, auth.user, Handler(endpoint))
    ELSE Response(200, "", NoToken, NoneUser, Handler(endpoint))

---------------------------------------------------------------------------
(* The authentication specification: clients register, log in and present
   tokens while the clock runs *)

Usernames == {"alice", "bob"}

Passwords == {"pw1", "pw2"}

\* role is passed through from the query string as it comes
Roles == {"user", "admin", "guest"}

\* the registrations tried at POST /auth/register: alice with any role, bob
\* as an administrator
Registrations == {<<"alice", role>> : role \in Roles} \cup {<<"bob", "admin">>}

\* the users who register at the auth service
ServiceUsernames == {"alice"}

\* The requests that only read (get_current_user, require_role,
\* require_admin, an endpoint) leave the table, the clock and the client's
\* token as they were, so whatever can follow one of them can follow the
\* request before it: they are explored from there, not after one another
ReadOps == {"get_current_user", "require_role", "require_admin", "endpoint"}

NotAfterRead == auth_req.op \notin ReadOps

\* a token with claims altered after signing, or signed with another key
Tampered(token) ==
    IF token.kind # "jwt" THEN {}
    ELSE {[token EXCEPT !.claims.exp = token.claims.exp + ACCESS_TOKEN_EXPIRE_MINUTES],
          [token EXCEPT !.sig.key = "guessed-key"]}
         \cup (IF "role" \in DOMAIN token.claims
               THEN {[token EXCEPT !.claims.role = "admin"]} ELSE {})

\* tokens signed with SECRET_KEY by another holder of the key at time 0:
\* the login of src/auth-service/app.py binds only sub; create_access_token
\* signs whatever data it is given
Minted ==
    {create_access_token([sub |-> u], ACCESS_TOKEN_EXPIRE_MINUTES, 0) : u \in Usernames}
    \cup {create_access_token([sub |-> "alice", role |-> "admin"], 0, 0),
          create_access_token([role |-> "admin"], ACCESS_TOKEN_EXPIRE_MINUTES, 0)}

\* what a client can put into the Authorization header
PresentedTokens ==
    {NoToken, [kind |-> "garbage"], auth_held} \cup Tampered(auth_held) \cup Minted

AuthInit ==
    /\ auth_engine \in BOOLEAN
    /\ auth_users = <<>> /\ auth_before = <<>>
    /\ auth_clock = 0 /\ auth_held = NoToken
    /\ auth_req = NoRequest /\ auth_resp = NoResponse

\* minutes that pass between two requests
TickSteps == {15}

\* a request: the operation, the time it arrives and its inputs
Request(op, args) ==
    [op |-> op, at |-> auth_clock, username |-> args.username,
     password |-> args.password, role |-> args.role, token |-> args.token,
     endpoint |-> args.endpoint, user |-> args.user]

NoArgs ==
    [username |-> "", password |-> "", role |-> "", token |-> NoToken,
     endpoint |-> "", user |-> NoneUser]

\* POST /auth/register
Register ==
    \E reg \in Registrations :
        LET username == reg[1]
            role == reg[2]
            resp == register(username, "mail", "pw1", role)
        IN  /\ auth_req' = Request("register",
                   [NoArgs EXCEPT !.username = username, !.password = "pw1", !.role = role])
            /\ auth_resp' = resp
            /\ auth_users' = UsersAfter(resp, username, "mail", "pw1", role)
            /\ auth_before' = auth_users
            /\ UNCHANGED <<auth_engine, auth_clock, auth_held>>
            /\ UNCHANGED <<etl_vars, iqr_vars, an_vars, ai_vars, kpi_vars, ext_vars>>

\* POST /register of the auth service, whose engine may be connected or not
ServiceRegister ==
    \E engine \in BOOLEAN, username \in ServiceUsernames :
        LET resp == service_register(engine, username, "mail", "pw1")
        IN  /\ auth_req' = Request(IF engine THEN "service_register"
                                   ELSE "service_register_no_engine",
                   [NoArgs EXCEPT !.username = username, !.password = "pw1"])
            /\ auth_resp' = resp
            /\ auth_users' = UsersAfter(resp, username, "mail", "pw1", "")
            /\ auth_before' = auth_users
            /\ UNCHANGED <<auth_engine, auth_clock, auth_held>>
            /\ UNCHANGED <<etl_vars, iqr_vars, an_vars, ai_vars, kpi_vars, ext_vars>>

\* POST /auth/token; the client keeps the token it is given
Login ==
    \E username \in Usernames, password \in Passwords :
        LET resp == login(username, password, auth_clock)
        IN  /\ auth_req' = Request("login",
                   [NoArgs EXCEPT !.username = username, !.password = password])
            /\ auth_resp' = resp
            /\ auth_held' = IF resp.status = 200 THEN resp.token ELSE auth_held
            /\ auth_before' = auth_users
            /\ UNCHANGED <<auth_engine, auth_users, auth_clock>>
            /\ UNCHANGED <<etl_vars, iqr_vars, an_vars, ai_vars, kpi_vars, ext_vars>>

\* AuthModule.get_current_user(token)
GetCurrentUser ==
    \E token \in PresentedTokens \ {NoToken} :
        /\ NotAfterRead
        /\ auth_req' = Request("get_current_user", [NoArgs EXCEPT !.token = token])
        /\ auth_resp' = get_current_user(token, auth_clock)
        /\ auth_before' = auth_users
        /\ UNCHANGED <<auth_engine, auth_users, auth_clock, auth_held>>
        /\ UNCHANGED <<etl_vars, iqr_vars, an_vars, ai_vars, kpi_vars, ext_vars>>

\* AuthModule.require_role(required_role, current_user), the current user
\* being the one get_current_user resolved
RequireRole ==
    \E required_role \in {"user", "admin"}, token \in PresentedTokens :
        LET auth == auth_get_current_user(token, auth_clock)
        IN  /\ NotAfterRead
            /\ auth.status = 200
            /\ auth_req' = Request("require_role",
                   [NoArgs EXCEPT !.role = required_role, !.token = token,
                                  !.user = auth.user])
            /\ auth_resp' = require_role(required_role, auth.user)
            /\ auth_before' = auth_users
            /\ UNCHANGED <<auth_engine, auth_users, auth_clock, auth_held>>
            /\ UNCHANGED <<etl_vars, iqr_vars, an_vars, ai_vars, kpi_vars, ext_vars>>

\* the dependency require_admin
RequireAdmin ==
    \E token \in PresentedTokens :
        /\ NotAfterRead
        /\ auth_req' = Request("require_admin",
               [NoArgs EXCEPT !.role = "admin", !.token = token])
        /\ auth_resp' = require_admin(token, auth_clock)
        /\ auth_before' = auth_users
        /\ UNCHANGED <<auth_engine, auth_users, auth_clock, auth_held>>
        /\ UNCHANGED <<etl_vars, iqr_vars, an_vars, ai_vars, kpi_vars, ext_vars>>

\* a request to an endpoint of app.py
CallEndpoint ==
    \E endpoint \in Endpoints, token \in PresentedTokens :
        /\ NotAfterRead
        /\ auth_req' = Request("endpoint",
               [NoArgs EXCEPT !.endpoint = endpoint, !.token = token])
        /\ auth_resp' = call_endpoint(endpoint, token, auth_clock)
        /\ auth_before' = auth_users
        /\ UNCHANGED <<auth_engine, auth_users, auth_clock, auth_held>>
        /\ UNCHANGED <<etl_vars, iqr_vars, an_vars, ai_vars, kpi_vars, ext_vars>>

AuthTick ==
    \E d \in TickSteps :
        /\ auth_clock + d <= MaxAuthTime
        /\ auth_clock' = auth_clock + d
        /\ UNCHANGED <<auth_engine, auth_users, auth_before, auth_held, auth_req, auth_resp>>
        /\ UNCHANGED <<etl_vars, iqr_vars, an_vars, ai_vars, kpi_vars, ext_vars>>

InitAUTH == AuthInit /\ EtlIdle /\ IqrIdle /\ AnIdle /\ AiIdle /\ KpiIdle /\ ExtIdle

NextAUTH ==
    \/ Register
    \/ ServiceRegister
    \/ Login
    \/ GetCurrentUser
    \/ RequireRole
    \/ RequireAdmin
    \/ CallEndpoint
    \/ AuthTick

SpecAUTH == InitAUTH /\ [][NextAUTH]_vars

---------------------------------------------------------------------------
(* The connect-retry loop: _connect_db of ETLProcessor, AIModel,
   KPICalculator and AuthModule, and its copies at module level in the
   auth service and in the two scripts.  One attempt is create_engine
   followed by a connection that executes SELECT 1 *)

max_retries == 10

\* seconds
retry_delay == 2

\* the components whose loop is the method _connect_db
Methods == {"etl_processor", "ai_model", "kpi_calculator", "auth_module"}

\* the modules whose loop runs at import, and those of them that exit(1)
\* after the last failed attempt
Scripts == {"auth_service", "model_script", "etl_script"}
ExitingScripts == {"model_script", "etl_script"}

\* the components that serve store-backed operations after the loop
Servers == Methods \cup {"auth_service"}

SleepsAfterEveryFailure(attempt) == TRUE

\* the except branch sleeps when attempt < max_retries - 1
SleepsAfter(attempt) == attempt < max_retries - 1

\* the handle is assigned by create_engine, before the connection is
\* tried; create_engine opens no connection, and raises only when the
\* dialect cannot be loaded
EngineAfter(engine, created) == IF created THEN "Engine" ELSE engine

\* __init__: self.engine = None, then the loop
ConnInit ==
    /\ conn_who \in Methods \cup Scripts
    /\ conn_pc = "attempt" /\ conn_attempt = 0 /\ conn_made = 0
    /\ conn_failed = 0 /\ conn_slept = 0 /\ conn_engine = "None"
    /\ conn_report = "none" /\ conn_health = "none" /\ conn_op = "none"
    /\ conn_contacted = FALSE

\* the try block runs to its end: return True, or break in a script
AttemptSucceeds ==
    /\ conn_pc = "attempt" /\ conn_attempt < max_retries
    /\ conn_engine' = EngineAfter(conn_engine, TRUE)
    /\ conn_made' = conn_made + 1
    /\ conn_report' = "success"
    /\ conn_pc' = "done"
    /\ UNCHANGED <<conn_who, conn_attempt, conn_failed, conn_slept,
                   conn_health, conn_op, conn_contacted>>
    /\ UNCHANGED conn_rest

\* create_engine or the connection raises
AttemptFails ==
    /\ conn_pc = "attempt" /\ conn_attempt < max_retries
    /\ \E created \in BOOLEAN : conn_engine' = EngineAfter(conn_engine, created)
    /\ conn_made' = conn_made + 1
    /\ conn_failed' = conn_failed + 1
    /\ IF SleepsAfter(conn_attempt)
       THEN conn_pc' = "sleeping" /\ conn_report' = conn_report
       ELSE /\ conn_report' = "failure"
            /\ conn_pc' = IF conn_who \in ExitingScripts THEN "exited" ELSE "done"
    /\ UNCHANGED <<conn_who, conn_attempt, conn_slept, conn_health, conn_op,
                   conn_contacted>>
    /\ UNCHANGED conn_rest

\* time.sleep(retry_delay), then the next round of the for loop; the
\* statement after the loop reports failure when range(max_retries) is used up
Sleep ==
    /\ conn_pc = "sleeping"
    /\ conn_slept' = conn_slept + retry_delay
    /\ conn_attempt' = conn_attempt + 1
    /\ IF conn_attempt + 1 < max_retries
       THEN conn_pc' = "attempt" /\ conn_report' = conn_report
       ELSE conn_pc' = "done" /\ conn_report' = "failure"
    /\ UNCHANGED <<conn_who, conn_made, conn_failed, conn_engine, conn_health,
                   conn_op, conn_contacted>>
    /\ UNCHANGED conn_rest

\* GET /health: "connected" if etl_processor.engine else "disconnected"
HealthCheck ==
    /\ conn_pc = "done" /\ conn_who = "etl_processor"
    /\ conn_health' = IF conn_engine # "None" THEN "connected" ELSE "disconnected"
    /\ UNCHANGED <<conn_who, conn_pc, conn_attempt, conn_made, conn_failed,
                   conn_slept, conn_engine, conn_report, conn_op, conn_contacted>>
    /\ UNCHANGED conn_rest

\* a store-backed operation of the component (save_to_*, load_training_data,
\* calculate_*, get_user_from_db, register): the unavailable result at once
\* when the handle is None, else a connection to the store, which answers
\* or raises
StoreOperation ==
    /\ conn_pc = "done" /\ conn_who \in Servers
    /\ \E up \in BOOLEAN :
          IF conn_engine = "None"
          THEN conn_op' = "unavailable" /\ conn_contacted' = FALSE
          ELSE /\ conn_contacted' = TRUE
               /\ conn_op' = IF up THEN "served" ELSE "unavailable"
    /\ UNCHANGED <<conn_who, conn_pc, conn_attempt, conn_made, conn_failed,
                   conn_slept, conn_engine, conn_report, conn_health>>
    /\ UNCHANGED conn_rest

LoopStep == AttemptSucceeds \/ AttemptFails \/ Sleep

InitCONN == ConnInit /\ ConnRestIdle

NextCONN == AttemptSucceeds \/ AttemptFails \/ Sleep \/ HealthCheck \/ StoreOperation

\* the loop runs in the one thread that constructs the component or imports
\* the module, and each of its statements returns
SpecCONN == InitCONN /\ [][NextCONN]_vars /\ WF_vars(LoopStep)

---------------------------------------------------------------------------
(* The pipeline on the store: ETLProcessor.process, AIModel.run_full_analysis
   and the KPI queries, over tables raw_data, clean_data, forecast and
   anomalies.  The readings stand for readings of the last hours: all of
   them lie inside the 30 days load_training_data selects *)

SpikeRow == [GoodRow EXCEPT !["power_kwh"] = Num(40)]
ZeroLoadRow == [GoodRow EXCEPT !["load_percent"] = Num(0)]
BadDateRow == [GoodRow EXCEPT !["timestamp"] = Str("not-a-date")]

BatchOf(rows) ==
    Frame(RequiredFields, [i \in 1..Len(rows) |-> Restrict(rows[i], RequiredFields)])

\* the files process is pointed at: one that does not exist, one that is
\* no JSON, an empty list of records, and lists of three records
Files ==
    {[name |-> "missing", readable |-> FALSE, data |-> EmptyFrame],
     [name |-> "not_json", readable |-> FALSE, data |-> EmptyFrame],
     [name |-> "empty_list", readable |-> TRUE, data |-> EmptyFrame],
     [name |-> "flat", readable |-> TRUE, data |-> BatchOf(<<GoodRow, GoodRow, GoodRow>>)],
     [name |-> "spike", readable |-> TRUE, data |-> BatchOf(<<GoodRow, GoodRow, SpikeRow>>)],
     [name |-> "mixed", readable |-> TRUE, data |-> BatchOf(<<ZeroLoadRow, GoodRow2, ZeroLoadRow>>)],
     [name |-> "zero_load", readable |-> TRUE, data |-> BatchOf(<<ZeroLoadRow, ZeroLoadRow, ZeroLoadRow>>)],
     [name |-> "bad_date", readable |-> TRUE, data |-> BatchOf(<<GoodRow, BadDateRow, GoodRow>>)]}

\* open / json.load / pd.DataFrame: an empty frame when any of them raises
load_raw_data(file) == IF ~file.readable THEN EmptyFrame ELSE file.data

\* df.rename(columns={'temp': 'temperature'})
RenameTemp(df) ==
    IF "temp" \notin df.cols THEN df
    ELSE LET cols == (df.cols \ {"temp"}) \cup {"temperature"}
         IN  [cols |-> cols,
              rows |-> [i \in 1..Len(df.rows) |->
                          [c \in cols |-> IF c = "temperature" THEN df.rows[i]["temp"]
                                          ELSE df.rows[i][c]]]]

\* the rows to_sql inserts: the wanted columns the frame has
StoredRows(df, wanted) ==
    LET d == RenameTemp(df)
    IN  [i \in 1..Len(d.rows) |-> Restrict(d.rows[i], wanted \cap d.cols)]

RawColumns == {"timestamp", "power_kwh", "load_percent", "temperature", "installation_id"}
CleanColumns == RawColumns \cup {"efficiency", "specific_consumption"}

ReplaceRawData(table, engine, df, store_ok) ==
    IF ~engine \/ IsEmpty(df) \/ ~store_ok THEN table ELSE StoredRows(df, RawColumns)

\* table raw_data after save_to_raw_data_table(df): to_sql with
\* if_exists='append' inserts every row or, when the store raises, none
save_to_raw_data_table(table, engine, df, store_ok) ==
    IF ~engine \/ IsEmpty(df) THEN table
    ELSE IF ~store_ok THEN table
    ELSE table \o StoredRows(df, RawColumns)

save_to_clean_data_table(table, engine, df, store_ok) ==
    IF ~engine \/ IsEmpty(df) THEN table
    ELSE IF ~store_ok THEN table
    ELSE table \o StoredRows(df, CleanColumns)

\* what process returns; the messages are those of the two early returns
EtlOutcome(status, message, raw_records, clean_records) ==
    [status |-> status, message |-> message,
     raw_records |-> raw_records, clean_records |-> clean_records]

SuccessDespiteEmptyBatch(raw_df) ==
    IF IsEmpty(raw_df) THEN EtlOutcome("error", "raw data not loaded", 0, 0)
    ELSE IF NormalizeRaises(raw_df) THEN EtlOutcome("raised", "", 0, 0)
    ELSE EtlOutcome("success", "", Len(raw_df.rows), Len(normalize_data(raw_df).rows))

\* process has no try block: an exception of normalize_data leaves it
process(raw_df) ==
    IF IsEmpty(raw_df) THEN EtlOutcome("error", "raw data not loaded", 0, 0)
    ELSE IF NormalizeRaises(raw_df) THEN EtlOutcome("raised", "", 0, 0)
    ELSE IF IsEmpty(normalize_data(raw_df))
    THEN EtlOutcome("error", "data not normalized", 0, 0)
    ELSE EtlOutcome("success", "", Len(raw_df.rows), Len(normalize_data(raw_df).rows))

\* detect_anomalies is called with its default threshold_std
threshold_std == 2

HistoryColumns == {"ds", "y", "load_percent", "temperature"}

Cell(r, c) == IF c \in DOMAIN r THEN r[c] ELSE NaN

\* SELECT timestamp as ds, power_kwh as y, load_percent, temperature FROM
\* clean_data: an empty frame without an engine or when the query raises
load_training_data(engine, readable, clean) ==
    IF ~engine \/ ~readable THEN EmptyFrame
    ELSE Frame(HistoryColumns,
               [i \in 1..Len(clean) |->
                   [c \in HistoryColumns |->
                       CASE c = "ds" -> Cell(clean[i], "timestamp")
                         [] c = "y" -> Cell(clean[i], "power_kwh")
                         [] OTHER -> Cell(clean[i], c)]])

AllStages ==
    <<"load", "train", "predict", "save_forecast", "detect_anomalies",
      "save_anomalies", "metrics">>

\* save_anomalies is called only with a non-empty frame
StagesOfSuccess(anomalies) ==
    IF IsEmpty(anomalies) THEN SelectSeq(AllStages, LAMBDA s : s # "save_anomalies")
    ELSE AllStages

AiOutcome(status, message, stages, periods, forecast, anomalies) ==
    [status |-> status, message |-> message, stages |-> stages,
     forecast_periods |-> periods, forecast |-> forecast,
     anomalies |-> anomalies, anomalies_count |-> Len(anomalies.rows)]

\* self.model after run_full_analysis
ModelAfterRun(model, training) ==
    IF IsEmpty(training) THEN model ELSE ModelAfterTrain(model, training, 1)

\* what run_full_analysis returns, with the stages it went through
run_full_analysis(model, training, periods) ==
    IF IsEmpty(training)
    THEN AiOutcome("error", "no training data", <<"load">>, periods, NoForecast, EmptyFrame)
    ELSE IF TrainResult(training) # "ok"
    THEN AiOutcome("error", "training failed", <<"load", "train">>, periods,
                   NoForecast, EmptyFrame)
    ELSE LET forecast == predict(ModelAfterRun(model, training), periods)
             anomalies == detect_anomalies(training, threshold_std)
         IN  IF forecast.points = 0
             THEN AiOutcome("error", "prediction failed", <<"load", "train", "predict">>,
                            periods, NoForecast, EmptyFrame)
             ELSE AiOutcome("success", "", StagesOfSuccess(anomalies), periods,
                            forecast, anomalies)

\* the rows of a forecast, renamed for table forecast
ForecastRows(forecast) ==
    [i \in 1..forecast.points |-> [timestamp |-> i, made_by |-> forecast.made_by]]

AnomalyColumns == {"timestamp", "power_kwh", "excess_kwh", "cause"}

\* table forecast after the run: save_forecast follows the three early returns
ForecastAfterRun(table, engine, store_ok, run) ==
    IF run.status # "success" \/ ~engine \/ ~store_ok \/ run.forecast.points = 0
    THEN table
    ELSE table \o ForecastRows(run.forecast)

AnomaliesSavedBeforePrediction(table, engine, store_ok, run, training) ==
    IF ~engine \/ ~store_ok THEN table
    ELSE table \o StoredRows(detect_anomalies(training, threshold_std), AnomalyColumns)

\* table anomalies after the run: save_anomalies follows save_forecast
AnomaliesAfterRun(table, engine, store_ok, run, training) ==
    IF run.status # "success" \/ ~engine \/ ~store_ok \/ IsEmpty(run.anomalies)
    THEN table
    ELSE table \o StoredRows(run.anomalies, AnomalyColumns)

\* an operation: its name, the file and the batch loaded from it, the
\* forecast periods, and whether the store takes its first and second call
PipeOp(op, file, batch, periods, raw_ok, clean_ok) ==
    [op |-> op, file |-> file, batch |-> batch, periods |-> periods,
     raw_ok |-> raw_ok, clean_ok |-> clean_ok]

\* both components have run their connect loop; the tables are empty
PipeInit ==
    /\ pl_etl_engine \in BOOLEAN /\ pl_ai_engine \in BOOLEAN
    /\ pl_raw = <<>> /\ pl_clean = <<>> /\ pl_fcst = <<>> /\ pl_anoms = <<>>
    /\ pl_model = NoModel /\ pl_op = NoRequest /\ pl_res = NoOutcome

\* ETLProcessor.process(file_path); each of the two writes is taken by the
\* store or raises
Process ==
    \E file \in Files, raw_ok \in BOOLEAN, clean_ok \in BOOLEAN :
        LET raw_df == load_raw_data(file)
            res == process(raw_df)
        IN  /\ Len(pl_raw) + Len(raw_df.rows) <= MaxStoredRows
            /\ Len(pl_clean) + Len(raw_df.rows) <= MaxStoredRows
            /\ pl_raw' = save_to_raw_data_table(pl_raw, pl_etl_engine, raw_df, raw_ok)
            /\ pl_clean' =
                  IF res.status = "success"
                  THEN save_to_clean_data_table(pl_clean, pl_etl_engine,
                           detect_outliers(normalize_data(raw_df)), clean_ok)
                  ELSE pl_clean
            /\ pl_op' = PipeOp("process", file.name, raw_df, 0, raw_ok, clean_ok)
            /\ pl_res' = res
            /\ UNCHANGED <<pl_etl_engine, pl_ai_engine, pl_fcst, pl_anoms, pl_model>>
            /\ UNCHANGED pipe_rest

\* AIModel.run_full_analysis(forecast_periods)
RunFullAnalysis ==
    \E periods \in PeriodChoices, readable \in BOOLEAN, store_ok \in BOOLEAN :
        LET training == load_training_data(pl_ai_engine, readable, pl_clean)
            run == run_full_analysis(pl_model, training, periods)
        IN  /\ pl_model' = ModelAfterRun(pl_model, training)
            /\ pl_fcst' = ForecastAfterRun(pl_fcst, pl_ai_engine, store_ok, run)
            /\ pl_anoms' = AnomaliesAfterRun(pl_anoms, pl_ai_engine, store_ok, run, training)
            /\ pl_op' = PipeOp("run_full_analysis", "", EmptyFrame, periods, readable, store_ok)
            /\ pl_res' = run
            /\ UNCHANGED <<pl_etl_engine, pl_ai_engine, pl_raw, pl_clean>>
            /\ UNCHANGED pipe_rest

\* a KPI function: SELECT statements only
KpiQuery ==
    /\ pl_op' = PipeOp("kpi", "", EmptyFrame, 0, TRUE, TRUE)
    /\ pl_res' = [status |-> "kpi", record_count |-> Len(pl_clean),
                  anomalies_count |-> Len(pl_anoms)]
    /\ UNCHANGED <<pl_etl_engine, pl_ai_engine, pl_raw, pl_clean, pl_fcst,
                   pl_anoms, pl_model>>
    /\ UNCHANGED pipe_rest

InitPIPE == PipeInit /\ PipeRestIdle

NextPIPE == Process \/ RunFullAnalysis \/ KpiQuery

SpecPIPE == InitPIPE /\ [][NextPIPE]_vars

---------------------------------------------------------------------------
(* Two register calls that overlap.  A handler holds its event loop from
   its first statement to its last, so calls overlap when they are served
   by different processes on the one table users: call 1 by
   AuthModule.register of the backend, call 2 by register of the auth
   service or by a second backend worker.  Each call is two statements on
   the store: the SELECT of get_user_from_db, then the INSERT with commit *)

Callers == {1, 2}

\* the table is created outside the sources: the data model gives username
\* as unique; a table without the constraint is covered as well
Schemas == {"unique_username", "no_constraint"}

\* the INSERT raises when the constraint is there and the username has a row
InsertRaises(schema, table, username) ==
    schema = "unique_username" /\ RowsOf(table, username) # <<>>

\* the except clause of register: HTTP 500 with the text of the exception
RegisterFailed == Raise(500, "Error registering user: duplicate key value")

RegInit ==
    /\ reg_schema \in Schemas
    /\ reg_users \in {<<>>, <<[username |-> "bob", by |-> 0]>>}
    /\ reg_name \in [Callers -> {"alice", "bob"}]
    /\ reg_pc = [p \in Callers |-> "start"]
    /\ reg_resp = [p \in Callers |-> NoResponse]

\* existing_user = get_user_from_db(username); 400 when there is a row
LookUp ==
    \E p \in Callers :
        /\ reg_pc[p] = "start"
        /\ IF RowsOf(reg_users, reg_name[p]) # <<>>
           THEN /\ reg_resp' = [reg_resp EXCEPT
                       ![p] = Raise(400, "Username already registered")]
                /\ reg_pc' = [reg_pc EXCEPT ![p] = "done"]
           ELSE /\ reg_resp' = reg_resp
                /\ reg_pc' = [reg_pc EXCEPT ![p] = "looked_up"]
        /\ UNCHANGED <<reg_schema, reg_users, reg_name>>
        /\ UNCHANGED reg_rest

\* the INSERT and the commit, inside try / except Exception
Insert ==
    \E p \in Callers :
        /\ reg_pc[p] = "looked_up"
        /\ IF InsertRaises(reg_schema, reg_users, reg_name[p])
           THEN /\ reg_resp' = [reg_resp EXCEPT ![p] = RegisterFailed]
                /\ reg_users' = reg_users
           ELSE /\ reg_resp' = [reg_resp EXCEPT ![p] =
                       Response(200, "User registered successfully", NoToken,
                                NoneUser, "none")]
                /\ reg_users' = Append(reg_users, [username |-> reg_name[p], by |-> p])
        /\ reg_pc' = [reg_pc EXCEPT ![p] = "done"]
        /\ UNCHANGED <<reg_schema, reg_name>>
        /\ UNCHANGED reg_rest

InitREG == RegInit /\ RegRestIdle

NextREG == LookUp \/ Insert

SpecREG == InitREG /\ [][NextREG]_vars

---------------------------------------------------------------------------
(* Executions that share the AIModel instance of app.py.  A background
   task is a plain function, which the framework runs in a worker thread;
   GET /ai/forecast runs on the event loop.  So an analysis overlaps with
   another analysis or with one forecast request, statement by statement.
   Execution e numbers the Prophet objects it constructs with e *)

Executions == {1, 2}

\* the frame load_training_data returns for a table of n rows
TrainingFrame(n) == History({"ds", "y", "load_percent", "temperature"}, n)

\* add_regressor and fit on the object the attribute refers to now; both
\* raise on an object that is fitted already, fit also on too short a history
FitFails(m, df) == m.fitted \/ FitRaises(df)

FitOn(m, df) ==
    IF m.fitted THEN m
    ELSE [AddRegressors(m, df) EXCEPT !.fitted = ~FitRaises(df)]

ShareInit ==
    /\ sh_model = NoModel
    /\ sh_rows \in {0, 1, 3}
    /\ sh_kind \in {<<"analysis", "analysis">>, <<"analysis", "forecast">>}
    /\ sh_pc = [e \in Executions |-> "start"]
    /\ sh_fit = [e \in Executions |-> 0]
    /\ sh_used = [e \in Executions |-> 0]
    /\ sh_result = [e \in Executions |-> "none"]

\* training_data = load_training_data(), and the return on an empty frame
LoadTrainingData ==
    \E e \in Executions :
        /\ sh_pc[e] = "start"
        /\ IF IsEmpty(TrainingFrame(sh_rows))
           THEN /\ sh_pc' = [sh_pc EXCEPT ![e] = "done"]
                /\ sh_result' = [sh_result EXCEPT ![e] = "no training data"]
           ELSE /\ sh_pc' = [sh_pc EXCEPT ![e] = "loaded"]
                /\ sh_result' = sh_result
        /\ UNCHANGED <<sh_model, sh_rows, sh_kind, sh_fit, sh_used>>
        /\ UNCHANGED share_rest

\* train_model up to self.model = Prophet()
InstallModel ==
    \E e \in Executions :
        /\ sh_pc[e] = "loaded"
        /\ sh_model' = NewProphet(e)
        /\ sh_pc' = [sh_pc EXCEPT ![e] = "installed"]
        /\ UNCHANGED <<sh_rows, sh_kind, sh_fit, sh_used, sh_result>>
        /\ UNCHANGED share_rest

\* the rest of train_model: self.model.add_regressor, self.model.fit.  The
\* analysis returns when train_model returns False; the forecast request
\* ignores what it returns
FitModel ==
    \E e \in Executions :
        /\ sh_pc[e] = "installed"
        /\ sh_fit' = [sh_fit EXCEPT ![e] = sh_model.made_by]
        /\ sh_model' = FitOn(sh_model, TrainingFrame(sh_rows))
        /\ IF FitFails(sh_model, TrainingFrame(sh_rows)) /\ sh_kind[e] = "analysis"
           THEN /\ sh_pc' = [sh_pc EXCEPT ![e] = "done"]
                /\ sh_result' = [sh_result EXCEPT ![e] = "training failed"]
           ELSE /\ sh_pc' = [sh_pc EXCEPT ![e] = "trained"]
                /\ sh_result' = sh_result
        /\ UNCHANGED <<sh_rows, sh_kind, sh_used>>
        /\ UNCHANGED share_rest

\* predict on the object the attribute refers to now, and the return
PredictShared ==
    \E e \in Executions, periods \in PeriodChoices :
        /\ sh_pc[e] = "trained"
        /\ sh_used' = [sh_used EXCEPT ![e] = sh_model.made_by]
        /\ sh_result' = [sh_result EXCEPT ![e] =
               IF predict(sh_model, periods).points = 0 THEN "prediction failed"
               ELSE "success"]
        /\ sh_pc' = [sh_pc EXCEPT ![e] = "done"]
        /\ UNCHANGED <<sh_model, sh_rows, sh_kind, sh_fit>>
        /\ UNCHANGED share_rest

InitSHARE == ShareInit /\ ShareRestIdle

NextSHARE == LoadTrainingData \/ InstallModel \/ FitModel \/ PredictShared

SpecSHARE == InitSHARE /\ [][NextSHARE]_vars

---------------------------------------------------------------------------
(* Logins against a users table that holds rows already, at the backend
   and at the auth service, with a store whose lookups can fail *)

\* get_user_from_db of src/auth-service/app.py: the module's own engine
\* handle, and no role column in the SELECT
service_get_user_from_db(engine, username) ==
    IF ~engine THEN NoneUser
    ELSE IF lgn_fault THEN NoneUser
    ELSE IF UserRows(username) = <<>> THEN NoneUser
    ELSE LET row == UserRows(username)[1]
         IN  [kind |-> "user_in_db", username |-> row.username,
              email |-> row.email, hashed_password |-> row.hashed_password]

\* login of src/auth-service/app.py: the token binds the subject only
service_login(engine, username, password, now) ==
    LET user == service_get_user_from_db(engine, username)
    IN  IF user = NoneUser THEN LoginRejected("no user")
        ELSE IF ~verify_password(password, user.hashed_password)
        THEN LoginRejected("wrong password")
        ELSE Response(200, "",
                      create_access_token([sub |-> user.username],
                                          ACCESS_TOKEN_EXPIRE_MINUTES, now),
                      NoneUser, "none")

UserRow(username, password, role) ==
    [username |-> username, email |-> "mail",
     hashed_password |-> get_password_hash(password), role |-> role]

\* table users after some registrations
StoredUsers ==
    {<<>>,
     <<UserRow("alice", "pw1", "user")>>,
     <<UserRow("bob", "pw2", "admin")>>,
     <<UserRow("alice", "pw1", "user"), UserRow("bob", "pw2", "admin")>>}

LoginInit ==
    /\ auth_engine \in BOOLEAN
    /\ auth_users \in StoredUsers /\ auth_before = auth_users
    /\ auth_clock = 0 /\ auth_held = NoToken
    /\ auth_req = NoRequest /\ auth_resp = NoResponse
    /\ lgn_fault \in BOOLEAN

\* POST /token of the auth service
ServiceLogin ==
    \E engine \in BOOLEAN, username \in Usernames, password \in Passwords :
        LET resp == service_login(engine, username, password, auth_clock)
        IN  /\ auth_req' = Request(IF engine THEN "service_login"
                                   ELSE "service_login_no_engine",
                   [NoArgs EXCEPT !.username = username, !.password = password])
            /\ auth_resp' = resp
            /\ auth_held' = IF resp.status = 200 THEN resp.token ELSE auth_held
            /\ auth_before' = auth_users
            /\ UNCHANGED <<auth_engine, auth_users, auth_clock>>
            /\ UNCHANGED <<etl_vars, iqr_vars, an_vars, ai_vars, kpi_vars, ext_vars>>

\* the next request finds the store in the other condition
StoreChanges ==
    /\ lgn_fault' = ~lgn_fault
    /\ auth_req' = NoRequest /\ auth_resp' = NoResponse
    /\ UNCHANGED <<auth_engine, auth_users, auth_before, auth_clock, auth_held>>
    /\ UNCHANGED <<etl_vars, iqr_vars, an_vars, ai_vars, kpi_vars>>
    /\ UNCHANGED <<conn_vars, pipe_vars, reg_vars, share_vars>>

InitLOGIN ==
    /\ LoginInit
    /\ EtlIdle /\ IqrIdle /\ AnIdle /\ AiIdle /\ KpiIdle
    /\ ConnIdle /\ PipeIdle /\ RegIdle /\ ShareIdle

NextLOGIN == Login \/ ServiceLogin \/ StoreChanges

SpecLOGIN == InitLOGIN /\ [][NextLOGIN]_vars

---------------------------------------------------------------------------
(* Claims about normalize_data *)

EtlDone == etl_pc \in {"normalized", "renormalized"}

\* C1: no row returned by normalize_data carries a load_percent outside
\* (0, 100] or a power_kwh <= 0: wherever the batch has the column, every
\* surviving row holds a number within the bound.
C1_NoRowOutsideBounds ==
    EtlDone =>
        \A i \in 1..Len(etl_out.rows) :
            /\ "load_percent" \in etl_out.cols =>
                  /\ etl_out.rows[i]["load_percent"].k = "num"
                  /\ etl_out.rows[i]["load_percent"].n > 0
                  /\ etl_out.rows[i]["load_percent"].n <= 100
            /\ "power_kwh" \in etl_out.cols =>
                  /\ etl_out.rows[i]["power_kwh"].k = "num"
                  /\ etl_out.rows[i]["power_kwh"].n > 0

\* a batch with a reading at 101 % beside a good one: one row survives
C1_Witness ==
    /\ etl_pc = "normalized"
    /\ {"load_percent", "power_kwh"} \subseteq etl_in.cols
    /\ Len(etl_in.rows) = 2
    /\ Len(etl_out.rows) = 1
    /\ \E i \in 1..2 : etl_in.rows[i]["load_percent"] = Num(101)

\* C6: normalize_data is idempotent on its own output: a second pass
\* returns the same rows with the same derived values.
C6_Idempotent == etl_pc = "renormalized" => etl_out2 = etl_out

\* C7: every row returned by normalize_data has all five required fields
\* present, also when a field is absent from every reading of the batch.
C7_RequiredFieldsPresent ==
    EtlDone =>
        \A i \in 1..Len(etl_out.rows) : \A f \in RequiredFields :
            f \in etl_out.cols /\ ~IsNA(etl_out.rows[i][f])

---------------------------------------------------------------------------
(* Claims about detect_outliers *)

\* the k-th smallest value of s, by counting
KthSmallest(s, k) ==
    CHOOSE v \in {s[i] : i \in 1..Len(s)} :
        /\ Cardinality({i \in 1..Len(s) : s[i] < v}) < k
        /\ Cardinality({i \in 1..Len(s) : s[i] <= v}) >= k

\* 4 * the percentile at quarters/4, interpolated linearly between the
\* two order statistics around position (n-1)*quarters/4
Percentile4(s, quarters) ==
    LET h4 == (Len(s) - 1) * quarters
        below == KthSmallest(s, h4 \div 4 + 1)
        above == KthSmallest(s, IF h4 % 4 = 0 THEN h4 \div 4 + 1 ELSE h4 \div 4 + 2)
    IN  4 * below + (h4 % 4) * (above - below)

\* C5: detect_outliers keeps every input row in order and flags exactly the
\* rows whose power_kwh lies strictly outside [Q1 - 1.5*IQR, Q3 + 1.5*IQR];
\* of the batch [10,10,10,10,1000] only 1000 is flagged.
C5_IqrFlagging ==
    (iqr_pc = "flagged" /\ "power_kwh" \in iqr_in.cols) =>
        LET p == ColumnValues(iqr_in, "power_kwh")
            q1 == Percentile4(p, 1)
            q3 == Percentile4(p, 3)
        IN  /\ Len(iqr_out.rows) = Len(iqr_in.rows)
            /\ \A i \in 1..Len(iqr_in.rows) :
                  /\ Restrict(iqr_out.rows[i], iqr_in.cols) = iqr_in.rows[i]
                  /\ iqr_out.rows[i]["is_outlier"] =
                        Bool(\/ 8 * p[i] < 2 * q1 - 3 * (q3 - q1)
                             \/ 8 * p[i] > 2 * q3 + 3 * (q3 - q1))
            /\ p = <<10, 10, 10, 10, 1000>> =>
                  [i \in 1..5 |-> iqr_out.rows[i]["is_outlier"].n] = <<0, 0, 0, 0, 1>>

C5_Witness ==
    /\ iqr_pc = "flagged"
    /\ "power_kwh" \in iqr_in.cols
    /\ ColumnValues(iqr_in, "power_kwh") = <<10, 10, 10, 10, 1000>>
    /\ iqr_out.rows[5]["is_outlier"] = Bool(TRUE)

---------------------------------------------------------------------------
(* Claims about detect_anomalies *)

AnPowers == ColumnValues(an_in, PowerCol(an_in))

\* the rows of the result, cut down to the columns of the batch
AnOutRows == [i \in 1..Len(an_out.rows) |-> Restrict(an_out.rows[i], an_in.cols)]

\* the cause the priority list gives a reading: the first rule that matches
FirstMatch(r) ==
    LET x == r[PowerCol(an_in)].n
        n == Len(AnPowers)
        S == SumSeq(AnPowers)
    IN  IF "load_percent" \in an_in.cols /\ r["load_percent"].n > 95 THEN "overload"
        ELSE IF "load_percent" \in an_in.cols /\ r["load_percent"].n < 50 /\ n * x > S
             THEN "low_efficiency"
        ELSE IF "efficiency" \in an_in.cols /\ r["efficiency"].n < 80
             THEN "equipment_wear"
        ELSE IF 5 * n * x > 6 * S THEN "high_consumption"
        ELSE "unknown"

\* C2: every anomaly carries the cause of the first matching rule, in the
\* order overload, low_efficiency, equipment_wear, high_consumption, unknown.
C2_FirstMatchWins ==
    an_pc = "detected" =>
        \A i \in 1..Len(an_out.rows) :
            an_out.rows[i]["cause"] = Str(FirstMatch(an_out.rows[i]))

\* n^2 * (sum of the squared deviations from the mean), term by term
SqDevTerms == SumSeq([i \in 1..Len(AnPowers) |->
                        (Len(AnPowers) * AnPowers[i] - SumSeq(AnPowers))
                      * (Len(AnPowers) * AnPowers[i] - SumSeq(AnPowers))])

\* x strictly outside mean +- k*std: (x - mean)^2 > k^2 * variance, the
\* sample variance being the squared deviations over n - 1
OutsideBand(r) ==
    LET n == Len(AnPowers)
        d == n * r[PowerCol(an_in)].n - SumSeq(AnPowers)
    IN  n >= 2 /\ d * d * (n - 1) > an_k * an_k * SqDevTerms

\* C3: detect_anomalies returns exactly the readings strictly outside
\* mean +- threshold_std*std (one on a bound is not returned), and none
\* when all values are equal.
C3_ExactlyOutsideBand ==
    an_pc = "detected" =>
        /\ AnOutRows = SelectSeq(an_in.rows, OutsideBand)
        /\ (\A i \in 1..Len(AnPowers) : AnPowers[i] = AnPowers[1]) => an_out.rows = <<>>

\* six readings, threshold 2: the one reading of 10 is the anomaly
C3_Witness ==
    /\ an_pc = "detected"
    /\ an_k = 2
    /\ Len(an_in.rows) = 6
    /\ Len(an_out.rows) = 1
    /\ an_out.rows[1]["power_kwh"] = Num(10)

\* C4: an anomaly above the mean has excess_kwh = power_kwh - mean (to the
\* thousandth), one below the mean has 0; excess_kwh is never negative.
C4_ExcessNonNegative ==
    an_pc = "detected" =>
        \A i \in 1..Len(an_out.rows) :
            LET n == Len(AnPowers)
                d == n * an_out.rows[i]["power_kwh"].n - SumSeq(AnPowers)
                e == an_out.rows[i]["excess_kwh"].n
            IN  /\ e >= 0
                /\ d > 0 => (e * n <= d * 1000 /\ d * 1000 < (e + 1) * n)
                /\ d < 0 => e = 0

\* an anomaly below the mean, whose excess is 0
C4_Witness ==
    /\ an_pc = "detected"
    /\ \E i \in 1..Len(an_out.rows) :
          /\ Len(AnPowers) * an_out.rows[i]["power_kwh"].n < SumSeq(AnPowers)
          /\ an_out.rows[i]["excess_kwh"] = Num(0)

\* C8: the anomalies come in the order of the input readings, and the
\* caller's batch is as it was before the call.
C8_OrderAndInputKept ==
    an_pc = "detected" =>
        /\ an_caller = an_in
        /\ AnOutRows = SelectSeq(an_in.rows,
                          LAMBDA r : \E i \in 1..Len(an_out.rows) : AnOutRows[i] = r)

\* two anomalies returned, in input order, from a batch with timestamps
C8_Witness ==
    /\ an_pc = "detected"
    /\ "timestamp" \in an_in.cols
    /\ Len(an_out.rows) = 2
    /\ an_out.rows[1]["timestamp"].n < an_out.rows[2]["timestamp"].n
    /\ an_caller = an_in

---------------------------------------------------------------------------
(* Claims about train_model and predict *)

\* C9: when train_model has registered load_percent and/or temperature,
\* predict hands the model a frame that has each registered regressor, and
\* a predict after a successful fit on such a history yields forecast points.
C9_RegressorsSupplied ==
    (ai_last = "predict" /\ ai_trained = "ok" /\ ai_model.regressors # {}) =>
        /\ ai_model.regressors \subseteq ai_future
        /\ ai_forecast.points > 0

\* C10: train_model fails on a history that is empty or has fewer than 2
\* timestamps, and a predict that follows a failed train_model returns no
\* forecast point.
C10_NoForecastAfterFailedTrain ==
    /\ (ai_last = "train" /\ Len(ai_hist.rows) < 2) => ai_trained = "failed"
    /\ (ai_last = "predict" /\ ai_trained = "failed") => ai_forecast.points = 0

---------------------------------------------------------------------------
(* Claims about the KPI calculator *)

KpiCalled(fn) == kpi_pc # "idle" /\ kpi_call.fn = fn

\* the values of a column over the rows of a table inside the window of
\* the call made, NULL left out
WindowValues(table, col) ==
    LET rows == SelectSeq(table, LAMBDA r : r.age <= kpi_call.period_days /\ r[col].k = "num")
    IN  [i \in 1..Len(rows) |-> rows[i][col].n]

WindowCount(table) == Len(SelectSeq(table, LAMBDA r : r.age <= kpi_call.period_days))

\* x is num / den rounded to the nearest unit (den > 0)
Nearest(x, num, den) ==
    /\ 2 * (x * den - num) <= den
    /\ 2 * (num - x * den) <= den

\* a field of a result, 0 when the result does not carry it
Field(res, name) == IF name \in DOMAIN res THEN res[name] ELSE 0

\* C11: calculate_enpi returns enpi = avg(power_kwh) / avg(load_percent)
\* over the rows of clean_data in the trailing period_days window (to 4
\* decimals), and the empty result when the window has no row.
C11_EnpiIsRatioOfAverages ==
    (KpiCalled("calculate_enpi") /\ kpi_engine) =>
        LET power == WindowValues(kpi_clean, "power_kwh")
            load == WindowValues(kpi_clean, "load_percent")
        IN  /\ WindowCount(kpi_clean) = 0 => kpi_res = EmptyResult
            /\ (power # <<>> /\ load # <<>>) =>
                   /\ kpi_res.kind = "enpi"
                   /\ Nearest(kpi_res.enpi, SumSeq(power) * Len(load) * 10000,
                              Len(power) * SumSeq(load))

\* power [1000, 2000] at load [50, 50] gives an EnPI of 30
C11_Witness ==
    /\ KpiCalled("calculate_enpi")
    /\ WindowValues(kpi_clean, "power_kwh") = <<1000, 2000>>
    /\ WindowValues(kpi_clean, "load_percent") = <<50, 50>>
    /\ kpi_res.kind = "enpi" /\ kpi_res.enpi = 30 * 10000

\* C12: calculate_excess_consumption returns excess_kwh = sum(actual) -
\* sum(predicted) whenever the window holds at least one forecast row, also
\* when the predictions sum to 0, and sum(actual) - avg(actual) * count only
\* when it holds none; excess_percent is excess_kwh over the baseline total
\* that was used, times 100.
C12_ExcessAgainstForecast ==
    (KpiCalled("calculate_excess_consumption") /\ kpi_engine) =>
        LET actual == WindowValues(kpi_clean, "power_kwh")
            predicted == WindowValues(kpi_fcst, "predicted_kwh")
            count == WindowCount(kpi_clean)
        IN  /\ kpi_res.kind = "excess"
            /\ WindowCount(kpi_fcst) >= 1 =>
                   /\ kpi_res.excess_kwh = (SumSeq(actual) - SumSeq(predicted)) * 100
                   /\ SumSeq(predicted) > 0 =>
                          Nearest(kpi_res.excess_percent,
                                  (SumSeq(actual) - SumSeq(predicted)) * 100 * 100,
                                  SumSeq(predicted))
            /\ (WindowCount(kpi_fcst) = 0 /\ actual # <<>>) =>
                   /\ Nearest(kpi_res.excess_kwh,
                              (SumSeq(actual) * Len(actual) - SumSeq(actual) * count) * 100,
                              Len(actual))
                   /\ Nearest(kpi_res.excess_percent,
                              (SumSeq(actual) * Len(actual) - SumSeq(actual) * count)
                                  * 100 * 100,
                              SumSeq(actual) * count)

\* C13: calculate_economic_effect returns savings_kwh = max(excess_kwh, 0)
\* * optimization_percent / 100, savings_rub = savings_kwh * price and
\* the annual savings = savings * 365 / period_days (each to 2 decimals),
\* where excess_kwh is what calculate_excess_consumption reports for the
\* period; when excess_kwh <= 0 both savings are 0.
C13_Savings ==
    KpiCalled("calculate_economic_effect") =>
        LET excess_kwh == Field(calculate_excess_consumption(kpi_call.period_days),
                                "excess_kwh")
            saved == IF excess_kwh > 0 THEN excess_kwh * kpi_call.optimization_percent ELSE 0
        IN  /\ Nearest(kpi_res.savings_kwh, saved, 100)
            /\ Nearest(kpi_res.savings_rub, saved * energy_price_per_kwh, 100)
            /\ Nearest(Field(kpi_res, "annual_savings_kwh"),
                       saved * days_per_year, 100 * kpi_call.period_days)
            /\ Nearest(Field(kpi_res, "annual_savings_rub"),
                       saved * days_per_year * energy_price_per_kwh,
                       100 * kpi_call.period_days)
            /\ excess_kwh <= 0 => kpi_res.savings_kwh = 0 /\ kpi_res.savings_rub = 0

\* an excess of 100 kWh at 2 percent and 5 rub/kWh over 30 days: 2 kWh,
\* 10 rub, 24.33 kWh a year
C13_Witness ==
    /\ KpiCalled("calculate_economic_effect")
    /\ kpi_call.optimization_percent = 2 /\ kpi_call.period_days = 30
    /\ calculate_excess_consumption(30) # EmptyResult
    /\ calculate_excess_consumption(30).excess_kwh = 100 * 100
    /\ kpi_res.savings_kwh = 200 /\ kpi_res.savings_rub = 1000
    /\ Field(kpi_res, "annual_savings_kwh") = 2433

\* C14: every KPI function is idempotent and free of side effects: the
\* same call made again on the same stored rows returns the identical
\* result.
C14_Idempotent == kpi_pc = "repeated" => kpi_res2 = kpi_res

---------------------------------------------------------------------------
(* Claims about the authentication module and the endpoints behind it *)

\* the process that served the last request had a connection to the store
Connected ==
    \/ auth_req.op = "service_register"
    \/ auth_req.op \notin {"service_register", "service_register_no_engine"} /\ auth_engine

\* C15: register for a username that already has a row in users fails with
\* the duplicate-user error (400) and leaves table users unchanged, and a
\* register for a username without a row succeeds and stores one; so of two
\* registrations of one username in sequence the first succeeds and the
\* second fails.
C15_DuplicateRejected ==
    (auth_req.op \in {"register", "service_register"} /\ Connected) =>
        IF RowsOf(auth_before, auth_req.username) # <<>>
        THEN /\ auth_resp.status = 400
             /\ auth_resp.detail = "Username already registered"
             /\ auth_users = auth_before
        ELSE /\ auth_resp.status = 200
             /\ Len(auth_users) = Len(auth_before) + 1
             /\ SubSeq(auth_users, 1, Len(auth_before)) = auth_before
             /\ auth_users[Len(auth_users)].username = auth_req.username

\* a second registration of alice at POST /auth/register is refused
C15_Witness ==
    /\ auth_req.op = "register" /\ auth_req.username = "alice"
    /\ Len(RowsOf(auth_before, "alice")) = 1
    /\ auth_resp.status = 400
    /\ auth_users = auth_before

\* C16: login fails with 401 and issues no token when the username has no
\* row in users or the password does not match the stored hash; otherwise
\* it issues a token signed with the secret whose claims are exactly sub =
\* the username, role = the stored role and exp = the time of issue plus
\* ACCESS_TOKEN_EXPIRE_MINUTES.
C16_Login ==
    (auth_req.op = "login" /\ Connected) =>
        LET rows == RowsOf(auth_users, auth_req.username)
        IN  IF rows = <<>> \/ rows[1].hashed_password.of # auth_req.password
            THEN auth_resp.status = 401 /\ auth_resp.token = NoToken
            ELSE /\ auth_resp.status = 200
                 /\ auth_resp.token.kind = "jwt"
                 /\ auth_resp.token.sig =
                        [key |-> SECRET_KEY, over |-> auth_resp.token.claims]
                 /\ DOMAIN auth_resp.token.claims = {"sub", "role", "exp"}
                 /\ auth_resp.token.claims.sub = auth_req.username
                 /\ rows[1].role # "" => auth_resp.token.claims.role = rows[1].role
                 /\ auth_resp.token.claims.exp = auth_req.at + ACCESS_TOKEN_EXPIRE_MINUTES

\* an administrator logs in at minute 15 and gets a token that expires at
\* minute 45
C16_Witness ==
    /\ auth_req.op = "login" /\ auth_req.at = 15
    /\ auth_resp.status = 200
    /\ auth_resp.token.claims.role = "admin"
    /\ auth_resp.token.claims.exp = 45

\* the signature of a token verifies under the signing secret
SignatureVerifies(token) ==
    token.kind = "jwt" /\ token.sig = [key |-> SECRET_KEY, over |-> token.claims]

\* what get_current_user answers, by the token it was given
TokenVerdict ==
    auth_req.op = "get_current_user" =>
        LET token == auth_req.token
        IN  /\ (\/ ~SignatureVerifies(token)
                \/ token.claims.exp < auth_req.at
                \/ "sub" \notin DOMAIN token.claims) => auth_resp.status = 401
            /\ (token = auth_held /\ Connected
                    /\ RowsOf(auth_users, token.claims.sub) # <<>>
                    /\ auth_req.at < token.claims.exp) => auth_resp.status = 200
            /\ (token = auth_held /\ auth_req.at > token.claims.exp) =>
                   auth_resp.status = 401

\* the client is authenticated while the token it holds would be accepted
Authenticated ==
    auth_held # NoToken /\ get_current_user(auth_held, auth_clock).status = 200

\* C17: get_current_user rejects with 401 every token whose signature does
\* not verify, whose expiry has passed or that has no sub claim; a token
\* issued by login is accepted at every time before its expiry while its
\* user exists and rejected at every time after it; and a client that is
\* not authenticated becomes authenticated only by a successful login.
C17_TokenLifetime ==
    /\ []TokenVerdict
    /\ [][(~Authenticated /\ Authenticated') =>
              (auth_req'.op = "login" /\ auth_resp'.status = 200
                  /\ auth_held' = auth_resp'.token)]_vars

\* a token issued by login is presented after its expiry and rejected
C17_Witness ==
    /\ auth_req.op = "get_current_user"
    /\ auth_req.token = auth_held
    /\ auth_req.at > auth_held.claims.exp
    /\ auth_resp.status = 401

\* C18: the User that get_current_user returns carries the role stored in
\* users for the subject of the token, whatever role claim the token
\* embeds; a token whose subject has no row is rejected with 401.
C18_RoleFromStore ==
    auth_req.op = "get_current_user" =>
        /\ auth_resp.status = 200 =>
               LET rows == RowsOf(auth_users, auth_req.token.claims.sub)
               IN  /\ rows # <<>>
                   /\ auth_resp.user.username = auth_req.token.claims.sub
                   /\ rows[1].role # "" => auth_resp.user.role = rows[1].role
        /\ (SignatureVerifies(auth_req.token)
                /\ "sub" \in DOMAIN auth_req.token.claims
                /\ RowsOf(auth_users, auth_req.token.claims.sub) = <<>>) =>
               auth_resp.status = 401

\* a properly signed token that claims the role admin is accepted for a
\* user stored with another role, and the user returned has the stored role
C18_Witness ==
    /\ auth_req.op = "get_current_user"
    /\ auth_resp.status = 200
    /\ "role" \in DOMAIN auth_req.token.claims
    /\ auth_req.token.claims.role = "admin"
    /\ auth_resp.user.role = "guest"
    /\ RowsOf(auth_users, auth_req.token.claims.sub)[1].role = "guest"

\* C19: require_role(required_role, current_user) returns the user if and
\* only if its role equals required_role or is "admin"; in every other
\* case it fails with 403.
C19_RequireRole ==
    auth_req.op = "require_role" =>
        IF auth_req.user.role = auth_req.role \/ auth_req.user.role = "admin"
        THEN auth_resp.status = 200 /\ auth_resp.user = auth_req.user
        ELSE auth_resp.status = 403 /\ auth_resp.user = NoneUser

\* an administrator passes a check for the role user
C19_Witness ==
    /\ auth_req.op = "require_role"
    /\ auth_req.role = "user" /\ auth_req.user.role = "admin"
    /\ auth_resp.status = 200

\* the endpoints under /etl, /ai and /kpi, and /auth/me
GuardedEndpoints ==
    {"/auth/me", "/etl/process", "/etl/status", "/ai/analyze", "/ai/forecast",
     "/ai/anomalies", "/kpi/enpi", "/kpi/excess", "/kpi/efficiency", "/kpi/economic",
     "/kpi/all"}

\* the bearer token of the last request was valid when the request came
ValidBearer ==
    /\ SignatureVerifies(auth_req.token)
    /\ auth_req.token.claims.exp >= auth_req.at
    /\ "sub" \in DOMAIN auth_req.token.claims
    /\ Connected
    /\ RowsOf(auth_users, auth_req.token.claims.sub) # <<>>

\* C20: every endpoint under /etl, /ai and /kpi, and /auth/me, runs its
\* handler only for a request with a valid bearer token: without one the
\* answer is 401 and no handler (ETL run, AI analysis, KPI query) starts;
\* a caller whose role does not suffice for the endpoint gets 403.
C20_EndpointsNeedToken ==
    (auth_req.op = "endpoint" /\ auth_req.endpoint \in GuardedEndpoints) =>
        /\ ~ValidBearer => auth_resp.status = 401 /\ auth_resp.ran = "none"
        /\ ValidBearer =>
               IF RequiredRole(auth_req.endpoint) = "none"
                  \/ auth_resp.user.role \in {RequiredRole(auth_req.endpoint), "admin"}
               THEN auth_resp.status = 200 /\ auth_resp.ran = Handler(auth_req.endpoint)
               ELSE auth_resp.status = 403 /\ auth_resp.ran = "none"

\* POST /etl/process with an expired token starts no ETL run
C20_Witness ==
    /\ auth_req.op = "endpoint" /\ auth_req.endpoint = "/etl/process"
    /\ auth_req.token = auth_held /\ auth_held # NoToken
    /\ auth_req.at > auth_held.claims.exp
    /\ auth_resp.status = 401 /\ auth_resp.ran = "none"

\* C21: after registrations at POST /auth/register every row of users that
\* stores a role has role user or admin, and every User that
\* get_current_user returns has role user or admin.
C21_RolesAreUserOrAdmin ==
    /\ \A i \in 1..Len(auth_users) :
           auth_users[i].role # "" => auth_users[i].role \in {"user", "admin"}
    /\ (auth_req.op = "get_current_user" /\ auth_resp.status = 200) =>
           auth_resp.user.role \in {"user", "admin"}

---------------------------------------------------------------------------
(* Claims about the connect-retry loop *)

LoopOver == conn_pc \in {"done", "exited"}

\* the loop has slept retry_delay after every failed attempt that another
\* attempt follows, and never else
SleptBetweenAttempts ==
    conn_slept = retry_delay *
        (IF conn_pc = "attempt" THEN conn_made
         ELSE IF conn_made = 0 THEN 0 ELSE conn_made - 1)

LoopBounded ==
    /\ conn_made <= max_retries
    /\ SleptBetweenAttempts
    /\ conn_report = "success" =>
           LoopOver /\ conn_failed = conn_made - 1
    /\ conn_report = "failure" <=> (LoopOver /\ conn_failed = max_retries)
    /\ LoopOver => conn_report # "none"

\* C22: the connect-retry loop always terminates; it makes at most
\* max_retries attempts, stops at the first successful one and reports
\* success, sleeps retry_delay only between attempts and never after the
\* last one, and reports failure exactly when all attempts failed.
C22_LoopTerminates == []LoopBounded /\ <>LoopOver

\* the loop of a component failed nine times, slept nine times and
\* connected at the last attempt
C22_Witness ==
    /\ conn_who = "etl_processor" /\ conn_pc = "done" /\ conn_report = "success"
    /\ conn_made = max_retries /\ conn_failed = max_retries - 1
    /\ conn_slept = retry_delay * (max_retries - 1)

\* C23: once the loop of a component has used up its attempts without a
\* connection, the engine handle is None, GET /health reports
\* "disconnected" and the store-backed operations return their unavailable
\* result without contacting the store; GET /health reports "connected"
\* only after a successful connectivity check.
C23_UnavailableAfterFailure ==
    /\ (conn_pc = "done" /\ conn_report = "failure") =>
           /\ conn_engine = "None"
           /\ conn_health \in {"none", "disconnected"}
           /\ conn_op \in {"none", "unavailable"}
           /\ ~conn_contacted
    /\ conn_health = "connected" => conn_report = "success"

---------------------------------------------------------------------------
(* Claims about the pipeline on the store *)

\* table t holds the rows of s, in their places, and possibly more after them
IsPrefix(s, t) == Len(s) <= Len(t) /\ SubSeq(t, 1, Len(s)) = s

\* C24: raw_data, clean_data, forecast and anomalies are append-only: every
\* ETL, AI and KPI operation leaves a table unchanged or adds rows after
\* the rows it holds, and none modifies or deletes a stored row.
C24_AppendOnly ==
    [][/\ IsPrefix(pl_raw, pl_raw')
       /\ IsPrefix(pl_clean, pl_clean')
       /\ IsPrefix(pl_fcst, pl_fcst')
       /\ IsPrefix(pl_anoms, pl_anoms')]_vars

\* a second batch has been added to raw_data and to clean_data
C24_Witness ==
    /\ pl_op.op = "process" /\ pl_op.file = "spike" /\ pl_res.status = "success"
    /\ Len(pl_raw) = 6 /\ Len(pl_clean) = 6

\* the batch the last process call loaded
ProcessedBatch == pl_op.batch

\* the batch loads and every row of it is removed by normalize_data
AllRowsRemoved(df) ==
    ~IsEmpty(df) /\ ~NormalizeRaises(df) /\ IsEmpty(normalize_data(df))

\* the batch loads and normalize_data returns a non-empty batch
BothNonEmpty(df) ==
    ~IsEmpty(df) /\ ~NormalizeRaises(df) /\ ~IsEmpty(normalize_data(df))

\* what process returns, by the batch
ProcessStatus ==
    /\ IsEmpty(ProcessedBatch') =>
           /\ pl_res'.status = "error" /\ pl_res'.message = "raw data not loaded"
           /\ pl_raw' = pl_raw /\ pl_clean' = pl_clean
    /\ AllRowsRemoved(ProcessedBatch') =>
           /\ pl_res'.status = "error" /\ pl_res'.message = "data not normalized"
           /\ pl_clean' = pl_clean
    /\ pl_res'.status = "success" <=> BothNonEmpty(ProcessedBatch')

\* raw_data has received every row of the batch
RawReceivedBatch == pl_raw' = pl_raw \o StoredRows(ProcessedBatch', RawColumns)

\* C27 as stated: process returns status error and writes nothing when the
\* file is missing, unreadable or yields an empty batch; when every row is
\* removed by normalisation it returns status error with clean_data
\* unchanged and raw_data has received the whole raw batch; it returns
\* status success exactly when the loaded and the normalised batch are
\* both non-empty.
C27_RawAlwaysReceived ==
    [][pl_op'.op = "process" =>
          /\ ProcessStatus
          /\ AllRowsRemoved(ProcessedBatch') => RawReceivedBatch]_vars

\* C27: process returns status error and writes nothing when the file is
\* missing, unreadable or yields an empty batch; when every row is removed
\* by normalisation it returns status error with clean_data unchanged
\* although save_to_raw_data_table has already run on the whole raw batch,
\* which raw_data has received if the ETL engine is set and the store took
\* the write; it returns status success exactly when the loaded and the
\* normalised batch are both non-empty, whether or not a write succeeded.
C27_ProcessOutcome ==
    [][pl_op'.op = "process" =>
          /\ ProcessStatus
          /\ AllRowsRemoved(ProcessedBatch') =>
                 IF pl_etl_engine /\ pl_op'.raw_ok THEN RawReceivedBatch
                 ELSE pl_raw' = pl_raw]_vars

\* a batch whose rows all have load 0 answers error after raw_data took it
C27_Witness ==
    /\ pl_op.op = "process" /\ pl_op.file = "zero_load"
    /\ pl_res.status = "error" /\ pl_res.message = "data not normalized"
    /\ Len(pl_raw) = 3 /\ pl_clean = <<>>

\* the place of a stage in the fixed order
StageIndex(s) == CHOOSE i \in 1..Len(AllStages) : AllStages[i] = s

\* the stages ran in the fixed order, from load on, each at most once
InFixedOrder(stages) ==
    /\ stages # <<>> /\ stages[1] = "load"
    /\ \A i \in 1..Len(stages) : \A j \in 1..Len(stages) :
           i < j => StageIndex(stages[i]) < StageIndex(stages[j])

\* the batch the last run trained on
TrainingOfRun == load_training_data(pl_ai_engine, pl_op.raw_ok, pl_clean)

\* C29: run_full_analysis runs its stages in the order load, train, predict,
\* save forecast, detect anomalies, save anomalies, metrics, each at most
\* once; when it returns status error (no training data, training failed
\* or prediction empty) the run wrote no row to forecast or anomalies, and
\* when it returns status success anomalies_count is the number of
\* anomalies detected in the training batch.
C29_RunOutcome ==
    [][pl_op'.op = "run_full_analysis" =>
          /\ InFixedOrder(pl_res'.stages)
          /\ pl_res'.status \in {"error", "success"}
          /\ pl_res'.status = "error" =>
                 /\ pl_res'.message \in
                        {"no training data", "training failed", "prediction failed"}
                 /\ pl_fcst' = pl_fcst /\ pl_anoms' = pl_anoms
          /\ pl_res'.status = "success" =>
                 pl_res'.anomalies_count =
                     Len(detect_anomalies(TrainingOfRun', threshold_std).rows)]_vars

\* a run whose training batch holds an anomalous reading stops at the
\* prediction and has written nothing
C29_Witness ==
    /\ pl_op.op = "run_full_analysis" /\ pl_op.raw_ok /\ pl_op.clean_ok /\ pl_ai_engine
    /\ pl_res.status = "error" /\ pl_res.message = "prediction failed"
    /\ ~IsEmpty(detect_anomalies(TrainingOfRun, threshold_std))
    /\ pl_fcst = <<>> /\ pl_anoms = <<>>

---------------------------------------------------------------------------
(* Claims about overlapping executions *)

\* C25: whatever the interleaving of two register calls with the same
\* username, table users ends with exactly one row for that username, one
\* call reports success and the other fails with the duplicate-username
\* error (400), not with a server error.
C25_OneRowOneDuplicateError ==
    (reg_pc = [p \in Callers |-> "done"] /\ reg_name[1] = reg_name[2]
        /\ reg_name[1] = "alice") =>
        /\ Len(RowsOf(reg_users, "alice")) = 1
        /\ \E p \in Callers :
               /\ reg_resp[p].status = 200
               /\ reg_resp[3 - p].status = 400
               /\ reg_resp[3 - p].detail = "Username already registered"

\* C26: when executions that share the AIModel instance overlap, the model
\* object an execution's train_model fits and the one its predict uses are
\* the object the same execution installed: no forecast is produced by, or
\* made to fail by, a model object installed by another execution.
C26_OwnModelUsed ==
    \A e \in Executions :
        /\ sh_fit[e] \in {0, e}
        /\ sh_used[e] \in {0, e}

\* the last request is a login, at the backend or at the auth service
IsLogin == auth_req.op \in {"login", "service_login", "service_login_no_engine"}

\* the lookup of the last login found no engine or a store that raised
LookupFailed ==
    \/ lgn_fault
    \/ IF auth_req.op = "login" THEN ~auth_engine ELSE auth_req.op # "service_login"

\* the username of the last login has no row, or the password is not the
\* one its row stores
NoSuchUser == RowsOf(auth_users, auth_req.username) = <<>>
WrongPassword ==
    /\ ~NoSuchUser
    /\ RowsOf(auth_users, auth_req.username)[1].hashed_password.of # auth_req.password

\* C30: the response of login does not tell whether a username exists: for
\* an unknown username, for a known username with a wrong password and for
\* a failed store lookup it is the same 401 with the same detail and
\* headers, and no response of login carries a stored password hash.
C30_LoginRevealsNothing ==
    IsLogin =>
        /\ (NoSuchUser \/ WrongPassword \/ LookupFailed) =>
               auth_resp = Unauthorized("Incorrect username or password")
        /\ auth_resp.user = NoneUser
        /\ auth_resp.token # NoToken =>
               DOMAIN auth_resp.token.claims \subseteq {"sub", "role", "exp"}

\* the right password of a stored user is refused while the store raises,
\* with the response an unknown username gets
C30_Witness ==
    /\ auth_req.op = "login" /\ auth_engine /\ lgn_fault
    /\ ~NoSuchUser /\ ~WrongPassword
    /\ auth_resp.status = 401
    /\ auth_resp.detail = "Incorrect username or password"
    /\ auth_resp.headers = "WWW-Authenticate: Bearer"

=============================================================================
